---- MODULE Spec2Model ----
(***************************************************************************)
(* A model of the request interceptor of src/script.js: the page's call    *)
(* surfaces (the fetch slot, the three XMLHttpRequest prototype methods,   *)
(* the form submit method and the document's submit listeners), the        *)
(* RequestInterceptor objects with their middleware registries and         *)
(* cleanup closures, and the calls in flight through the installed         *)
(* wrappers.                                                               *)
(*                                                                         *)
(* Function objects are records: a wrapper carries the values its closure  *)
(* captured, so calling a function value is a walk down that record.       *)
(***************************************************************************)
EXTENDS Integers, Sequences, FiniteSets, TLC

(***************************************************************************)
(* Bounds of the model.                                                    *)
(***************************************************************************)
MaxInterceptors == 2
MaxInstalls == 3
MaxCleanups == 2

Interceptors == 1..MaxInterceptors

(***************************************************************************)
(* Function objects.                                                       *)
(***************************************************************************)
NativeFetch == [k |-> "nativeFetch", patched |-> FALSE]
NativeOpen == [k |-> "nativeOpen"]
NativeSend == [k |-> "nativeSend"]
NativeSetRequestHeader == [k |-> "nativeSetRequestHeader"]
NativeSubmit == [k |-> "nativeSubmit"]

\* A function of the page's own that ends in the real call (a polyfill, a
\* wrapper of another library), and a value that is no function.
PageFetch == [k |-> "pageFetch", patched |-> FALSE]
NotAFunction == [k |-> "notAFunction", patched |-> FALSE]

\* window.fetch?.bind(window): a new function object; a bound function has
\* none of its target's own properties, so it never carries the marker.
Bind(f) == [k |-> "bound", target |-> f, patched |-> FALSE]

\* The function createInterceptedFetch(baseFetch) returns: a new object on
\* every call.
createInterceptedFetch(self, baseFetch) ==
    [k |-> "getterWrap", self |-> self, baseFetch |-> baseFetch, patched |-> FALSE]

\* new Proxy(originalFetch, {apply}).
ProxyFetch(self, target) ==
    [k |-> "proxy", self |-> self, target |-> target, patched |-> FALSE]

\* The function interceptedFetch of the direct replacement.
interceptedFetch(self, orig) ==
    [k |-> "direct", self |-> self, originalFetch |-> orig, patched |-> FALSE]

\* typeof v === "function"
IsFunction(v) == v.k # "notAFunction"

\* Object.defineProperty(f, IS_PATCHED_MODULE, {value: v})
DefineMarker(f, v) == [f EXCEPT !.patched = v]

(***************************************************************************)
(* The page's globals.  fetch is the descriptor of window's own property   *)
(* (window and globalThis are one object), protoFetch the descriptor of    *)
(* Window.prototype.fetch, cells the currentFetch variable of each         *)
(* getter/setter installation.                                             *)
(***************************************************************************)
DataDesc(v) == [kind |-> "data", value |-> v]
AccessorDesc(self, n) == [kind |-> "accessor", self |-> self, cell |-> n]
Absent == [kind |-> "absent"]

NativePage ==
    [fetch |-> DataDesc(NativeFetch),
     protoFetch |-> Absent,
     cells |-> <<>>,
     open |-> NativeOpen,
     send |-> NativeSend,
     setRequestHeader |-> NativeSetRequestHeader,
     submit |-> NativeSubmit,
     listeners |-> <<>>]

\* Reading a property through its descriptor: the getter builds a wrapper
\* around the cell's value at the time of the read.
ReadDesc(pg, d) ==
    IF d.kind = "data" THEN d.value
    ELSE createInterceptedFetch(d.self, pg.cells[d.cell])

\* window.fetch (the own property shadows the prototype's).
ReadFetch(pg) == ReadDesc(pg, pg.fetch)

\* (A variant in which an assignment replaces the property whatever it is.)
AssignFetchDisplacing(pg, v) == [pg EXCEPT !.fetch = DataDesc(v)]

\* window.fetch = v: a data property takes the value, an accessor runs its
\* setter, which stores a function in the cell and ignores anything else.
AssignFetch(pg, v) ==
    IF pg.fetch.kind = "data" THEN [pg EXCEPT !.fetch = DataDesc(v)]
    ELSE IF IsFunction(v) THEN [pg EXCEPT !.cells[pg.fetch.cell] = v]
    ELSE pg

(***************************************************************************)
(* Options.  What a caller gives is a partial record; the constructor      *)
(* fills in defaults, updateOptions merges over the stored options.        *)
(***************************************************************************)
OptionNames ==
    {"disableFetch", "disableXHR", "disableFormIntercept",
     "delayFormSubmitForFetch", "useProxyForFetch", "useGetterForFetch"}

\* (A variant in which useProxyForFetch is options.useProxyForFetch || false
\* like the other options.)
ConstructorOptionsOrFalse(given) ==
    [n \in OptionNames |-> IF n \in DOMAIN given THEN given[n] ELSE FALSE]

\* options.x || false for every option but useProxyForFetch, which is
\* options.useProxyForFetch !== false; the spread of the given options on
\* top changes nothing for boolean values.
ConstructorOptions(given) ==
    [n \in OptionNames |->
        IF n \in DOMAIN given THEN given[n] ELSE (n = "useProxyForFetch")]

\* { ...this.options, ...options }
MergeOptions(old, given) ==
    [n \in OptionNames |-> IF n \in DOMAIN given THEN given[n] ELSE old[n]]

(***************************************************************************)
(* setupInterceptor, one part per call surface.  Each part returns the     *)
(* page after it, the cleanup closures it pushed and whether it returned   *)
(* from setupInterceptor.  n numbers the run of setupInterceptor.          *)
(***************************************************************************)
FetchCleanup(orig) == [k |-> "fetchCleanup", originalFetch |-> orig]

SetupGetterFetch(pg, self, orig) ==
    IF orig.patched
    THEN [page |-> pg, subs |-> <<>>, returned |-> TRUE]
    ELSE LET n == Len(pg.cells) + 1
             acc == AccessorDesc(self, n)
             \* defineProperty on window, globalThis and Window.prototype,
             \* the three accessors sharing the variable currentFetch
             pg1 == [pg EXCEPT !.cells = Append(@, orig),
                               !.fetch = acc,
                               !.protoFetch = acc]
             \* the marker goes on the object the getter has just built,
             \* which nothing else holds
             marked == DefineMarker(ReadFetch(pg1), TRUE)
         IN  [page |-> pg1, subs |-> <<FetchCleanup(orig)>>, returned |-> FALSE]

SetupProxyFetch(pg, self, orig) ==
    [page |-> AssignFetch(pg, ProxyFetch(self, orig)),
     subs |-> <<>>, returned |-> FALSE]

SetupDirectFetch(pg, self, orig) ==
    LET f == interceptedFetch(self, orig)
    IN  [page |-> [pg EXCEPT !.fetch = DataDesc(f), !.protoFetch = DataDesc(f)],
         subs |-> <<>>, returned |-> FALSE]

\* Priority order: useGetterForFetch > useProxyForFetch > direct replacement
SetupFetch(pg, self, o, orig) ==
    IF o.disableFetch THEN [page |-> pg, subs |-> <<>>, returned |-> FALSE]
    ELSE IF o.useGetterForFetch THEN SetupGetterFetch(pg, self, orig)
    ELSE IF o.useProxyForFetch THEN SetupProxyFetch(pg, self, orig)
    ELSE SetupDirectFetch(pg, self, orig)

\* The three prototype methods are wrapped around whatever the prototype
\* holds now; n names the requestInfoMap of this run.
SetupXHR(pg, self, o, n) ==
    IF o.disableXHR THEN [page |-> pg, subs |-> <<>>]
    ELSE [page |->
            [pg EXCEPT
               !.open = [k |-> "openWrap", self |-> self, n |-> n,
                         originalOpen |-> pg.open],
               !.setRequestHeader =
                        [k |-> "setRequestHeaderWrap", self |-> self, n |-> n,
                         originalSetRequestHeader |-> pg.setRequestHeader],
               !.send = [k |-> "sendWrap", self |-> self, n |-> n,
                         originalSend |-> pg.send]],
          subs |-> << [k |-> "xhrCleanup",
                       originalOpen |-> pg.open,
                       originalSend |-> pg.send,
                       originalSetRequestHeader |-> pg.setRequestHeader] >>]

SetupForm(pg, self, o, n) ==
    IF o.disableFormIntercept THEN [page |-> pg, subs |-> <<>>]
    ELSE LET submitHandler == [k |-> "submitHandler", self |-> self, n |-> n,
                               originalSubmit |-> pg.submit]
         IN [page |->
               [pg EXCEPT
                  !.listeners = Append(@, submitHandler),
                  !.submit = [k |-> "submitWrap", self |-> self, n |-> n,
                              originalSubmit |-> pg.submit]],
             subs |-> << [k |-> "formCleanup",
                          originalSubmit |-> pg.submit,
                          submitHandler |-> submitHandler] >>]

setupInterceptor(pg, self, o, orig, n) ==
    LET f == SetupFetch(pg, self, o, orig)
    IN  IF f.returned THEN [page |-> f.page, subs |-> f.subs]
        ELSE LET x == SetupXHR(f.page, self, o, n)
                 s == SetupForm(x.page, self, o, n)
             IN  [page |-> s.page, subs |-> f.subs \o x.subs \o s.subs]

(***************************************************************************)
(* The cleanup closures.                                                   *)
(***************************************************************************)
RunFetchCleanup(pg, c) ==
    LET \* the marker is set to undefined on what window.fetch yields: the
        \* stored function of a data property, a fresh wrapper of an accessor
        pg1 == IF pg.fetch.kind = "data"
               THEN [pg EXCEPT !.fetch = DataDesc(DefineMarker(@.value, FALSE))]
               ELSE pg
        \* globalThis.fetch = originalFetch; window.fetch = originalFetch
        pg2 == AssignFetch(AssignFetch(pg1, c.originalFetch), c.originalFetch)
    IN  \* delete window.Window.prototype.fetch
        [pg2 EXCEPT !.protoFetch = Absent]

RunXHRCleanup(pg, c) ==
    [pg EXCEPT !.open = c.originalOpen,
               !.send = c.originalSend,
               !.setRequestHeader = c.originalSetRequestHeader]

\* (A variant in which the closure leaves the submit listener in place.)
RunFormCleanupKeepingListener(pg, c) ==
    [pg EXCEPT !.submit = c.originalSubmit]

RunFormCleanup(pg, c) ==
    [pg EXCEPT !.submit = c.originalSubmit,
               !.listeners = SelectSeq(@, LAMBDA h : h # c.submitHandler)]

RunClosure(pg, c) ==
    IF c.k = "fetchCleanup" THEN RunFetchCleanup(pg, c)
    ELSE IF c.k = "xhrCleanup" THEN RunXHRCleanup(pg, c)
    ELSE RunFormCleanup(pg, c)

\* this.subscriptions.forEach: the order in which cleanup visits the
\* closures, as positions in the array (the order of installation).
CleanupOrder(subs) == [j \in 1..Len(subs) |-> j]

RECURSIVE RunClosures(_, _, _)
RunClosures(pg, subs, order) ==
    IF order = <<>> THEN pg
    ELSE RunClosures(RunClosure(pg, subs[Head(order)]), subs, Tail(order))

(***************************************************************************)
(* URLs.  A URL string is kept parsed: abs says whether new URL(u) accepts *)
(* it, a reference that is not absolute has a path that is rooted ("/a/b") *)
(* or not ("a/b").  The page is at https://example.com/app/.               *)
(***************************************************************************)
LocationOrigin == "https://example.com"
LocationDir == <<"app">>

Url(abs, origin, rooted, segs, query) ==
    [abs |-> abs, origin |-> origin, rooted |-> rooted, segs |-> segs,
     query |-> query]

\* canParseUrl: new URL(url) does not throw
canParseUrl(u) == u.abs

\* new URL(u, location.href)
UrlAgainstLocation(u) ==
    IF u.abs THEN u
    ELSE Url(TRUE, LocationOrigin, TRUE,
             IF u.rooted THEN u.segs ELSE LocationDir \o u.segs, u.query)

\* What new Request(input, init) makes of a method: the standard verbs are
\* upper-cased, an omitted one is GET.
RequestMethod(m) ==
    CASE m = "omitted" -> "GET"
      [] m = "get" -> "GET"
      [] m = "post" -> "POST"
      [] OTHER -> m

(***************************************************************************)
(* The arguments of a fetch call: form says whether the first argument is  *)
(* a URL string (with an init of method, headers and body) or a Request    *)
(* object.  headers is a set of [name, value] records.                     *)
(***************************************************************************)
FetchArg(form, url, method, headers, body) ==
    [form |-> form, url |-> url, method |-> method, headers |-> headers,
     body |-> body]

\* The request the native fetch puts on the wire for given arguments.
WireRequest(a) ==
    [url |-> UrlAgainstLocation(a.url), method |-> RequestMethod(a.method),
     headers |-> a.headers, body |-> a.body]

\* The native fetch refuses a GET or HEAD request that has a body.
NativeRejects(a) ==
    RequestMethod(a.method) \in {"GET", "HEAD"} /\ a.body # "none"

\* The Response object the native fetch resolves with.
NativeResponse(a, status) ==
    [k |-> "response", for |-> WireRequest(a), status |-> status]

\* The error the native fetch rejects with.
NativeError(a) == [k |-> "error", for |-> WireRequest(a), status |-> 0]

(***************************************************************************)
(* Middlewares.  A registry is the sequence of a Map's entries in          *)
(* insertion order, each an id and a function.  A function is known by     *)
(* what it does when called:                                               *)
(*   ok      an async function that resolves later                         *)
(*   mutate  an async function that rewrites the record it is given, and   *)
(*           resolves later                                                *)
(*   reject  an async function whose promise rejects later                 *)
(*   throw   a plain function that throws when called                      *)
(*   hang    a function whose promise never settles                        *)
(***************************************************************************)
RequestKinds == {"ok", "mutate", "reject", "throw", "hang"}
ResponseKinds == {"ok", "reject", "throw", "hang"}

MutatedUrl == Url(TRUE, "https://other.example", TRUE, <<"m">>, "")
InjectedHeader == [name |-> "X-Injected", value |-> "1"]

\* What a mutate middleware does to the record it is given.
MutateRecord(rec) ==
    [rec EXCEPT !.url = MutatedUrl, !.method = "PUT",
                !.headers = @ \cup {InjectedHeader}, !.body = "mutated"]

\* Array.from(map.values()).map((middleware) => middleware(rec)): the
\* functions are called in order; a call that throws ends the map, and the
\* later functions are not called.  Returns the state of each function's
\* call, the record after the calls and whether the map threw.
RECURSIVE MapMiddlewares(_, _, _, _)
MapMiddlewares(reg, j, done, rec) ==
    IF j > Len(reg)
    THEN [mw |-> done, rec |-> rec, threw |-> FALSE]
    ELSE LET e == reg[j]
         IN  IF e.kind = "throw"
             THEN [mw |-> done \o <<[id |-> e.id, kind |-> e.kind, st |-> "threw"]>>
                          \o [i \in 1..(Len(reg) - j) |->
                                [id |-> reg[j + i].id, kind |-> reg[j + i].kind,
                                 st |-> "notCalled"]],
                   rec |-> rec, threw |-> TRUE]
             ELSE MapMiddlewares(reg, j + 1,
                     Append(done, [id |-> e.id, kind |-> e.kind, st |-> "pending"]),
                     IF e.kind = "mutate" THEN MutateRecord(rec) ELSE rec)

\* Promise.all over the promises of the calls: settled once one has
\* rejected or all have resolved.
PromiseAllSettled(mw) ==
    \/ \E j \in 1..Len(mw) : mw[j].st = "rejected"
    \/ \A j \in 1..Len(mw) : mw[j].st = "resolved"

\* try { await Promise.all(map) } catch {} inside an async function is over:
\* the map threw, or the Promise.all has settled.
MiddlewaresOver(mw) ==
    \/ \E j \in 1..Len(mw) : mw[j].st = "threw"
    \/ PromiseAllSettled(mw)

\* The promise of the call number j of mw settles.
Settled(mw, j) ==
    [mw EXCEPT ![j].st = IF mw[j].kind = "reject" THEN "rejected" ELSE "resolved"]

CanSettle(mw, j) ==
    j \in 1..Len(mw) /\ mw[j].st = "pending" /\ mw[j].kind # "hang"

(***************************************************************************)
(* One wrapper's part of a fetch call (a layer): the record its request    *)
(* middlewares are given, the arguments it will call the wrapped function  *)
(* with, and where it stands.                                              *)
(***************************************************************************)
\* A request id (`req_...`, `xhr_...`, `form_...`): the surface that made it,
\* and the call and the place in the call it was made for.
RequestId(surface, call, layer) ==
    [surface |-> surface, call |-> call, layer |-> layer]

NoId == RequestId("none", 0, 0)
NoRecord == [id |-> NoId, url |-> Url(FALSE, "", FALSE, <<>>, ""),
             method |-> "omitted", headers |-> {}, body |-> "none"]

\* The run of processResponseMiddlewares a layer started: where it stands,
\* how many entries of the registry its iterator has passed, the kind of
\* the function it is waiting for, the ids it has called so far and the
\* request record and the response it was given, and the id of the record
\* parseResponse made of the response.
NoTask == [st |-> "none", idx |-> 0, cur |-> "none", called |-> <<>>,
           rec |-> NoRecord, response |-> [k |-> "none"], parsedId |-> NoId]

\* id: response.id || null, null being NoId; a Response has no id unless
\* something has put one on the object.
ResponseIdOrNull(response) ==
    IF "id" \in DOMAIN response THEN response.id ELSE NoId

\* The wrappers of the getter/setter strategy and of the direct
\* replacement: a Request is built from the resolved input before any
\* middleware runs, and it is that Request the wrapped function is called
\* with.
RequestLayer(f, a, id) ==
    LET resolvedInput ==
            IF a.form = "string" /\ ~canParseUrl(a.url)
            THEN UrlAgainstLocation(a.url) ELSE a.url
        request == FetchArg("request", resolvedInput, RequestMethod(a.method),
                            a.headers, a.body)
    IN  [kind |-> f.k, self |-> f.self,
         base |-> IF f.k = "getterWrap" THEN f.baseFetch ELSE f.originalFetch,
         rec |-> [id |-> id, url |-> request.url, method |-> request.method,
                  headers |-> request.headers, body |-> "none"],
         next |-> request,
         mw |-> <<>>, st |-> "middlewares", task |-> NoTask]

\* The apply handler of the Proxy: requestData holds the url as given and
\* the options with the method defaulted; the middlewares are given a copy
\* (middlewareRequestData), and the target is called with requestData.  A
\* Request given as first argument comes with no options, so it is passed on
\* with the options {method: "GET", headers: {}}.
ProxyLayer(f, a, id) ==
    LET method == IF a.form = "request" \/ a.method = "omitted"
                  THEN "GET" ELSE a.method
        headers == IF a.form = "request" THEN {} ELSE a.headers
        body == IF a.form = "request" THEN "none" ELSE a.body
    IN  [kind |-> f.k, self |-> f.self, base |-> f.target,
         rec |-> [id |-> NoId, url |-> a.url, method |-> method,
                  headers |-> headers, body |-> body],
         next |-> FetchArg(a.form, a.url, method, headers, a.body),
         mw |-> <<>>, st |-> "middlewares", task |-> NoTask]

IsWrapper(f) == f.k \in {"getterWrap", "proxy", "direct"}

NewLayer(f, a, id) ==
    IF f.k = "proxy" THEN ProxyLayer(f, a, id) ELSE RequestLayer(f, a, id)

\* (A variant in which the wrapped function is called with the record the
\* middlewares were given.)
DispatchRecord(layer) ==
    [layer.next EXCEPT !.url = layer.rec.url, !.method = layer.rec.method,
                       !.headers = layer.rec.headers,
                       !.body = IF layer.rec.body = "none" THEN @ ELSE layer.rec.body]

\* The arguments a layer calls the wrapped function with.
DispatchArg(layer) == layer.next

(***************************************************************************)
(* A fetch call: who made it (by: the page, or a form replay), the         *)
(* function called (fn) and its arguments (input), the promise the caller  *)
(* holds (st, result), the layers the call has entered, outermost first,   *)
(* and the native call at the bottom (net, sent, response).  History: at,  *)
(* the number of lifecycle operations and assignments before a call of the *)
(* page, leaf, the function that made the real call, and read, the         *)
(* response objects whose body the wrappers' response runs have read.      *)
(***************************************************************************)
NoArg == FetchArg("none", Url(FALSE, "", FALSE, <<>>, ""), "omitted", {}, "none")
NoResponse == [k |-> "none", for |-> WireRequest(NoArg), status |-> 0]

NewCall(by, f, a) ==
    [by |-> by, st |-> "pending", fn |-> f, input |-> a, layers |-> <<>>,
     net |-> "none", sent |-> NoArg, response |-> NoResponse,
     result |-> NoResponse, at |-> 0, leaf |-> [k |-> "none"], read |-> {}]

\* response.clone()
Clone(r) == [r EXCEPT !.k = "clone"]

\* (A variant in which the response itself is given to the response run.)
ResponseItself(response) == response

\* processResponseMiddlewares(response.clone(), ...): the response the run
\* is given.
ResponseForTask(response) == Clone(response)

\* Map.prototype.clear() under a running iterator: the entries it has passed
\* are gone, and it goes on with whatever is added afterwards.
ClearedUnder(call, self) ==
    [call EXCEPT !.layers =
        [l \in 1..Len(call.layers) |->
            IF call.layers[l].self = self /\ call.layers[l].task.st = "awaiting"
            THEN [call.layers[l] EXCEPT !.task.idx = 0]
            ELSE call.layers[l]]]

\* The same for the response runs of an XMLHttpRequest and of the replays
\* of a form.
TasksCleared(tasks, self) ==
    [t \in 1..Len(tasks) |->
        IF tasks[t].self = self /\ tasks[t].st = "awaiting"
        THEN [tasks[t] EXCEPT !.idx = 0] ELSE tasks[t]]

ReplaysCleared(replays, self) ==
    [r \in 1..Len(replays) |->
        IF replays[r].self = self /\ replays[r].task.st = "awaiting"
        THEN [replays[r] EXCEPT !.task.idx = 0] ELSE replays[r]]

(***************************************************************************)
(* parseResponse.  A Response is known by whether its body has been read   *)
(* (bodyUsed), its content type, its body and whether reading the body     *)
(* fails (textFails: the stream errors).  A call of parseResponse is the   *)
(* response as it was given and as it is by now, the number of times the   *)
(* call has read the body (reads), where the call stands (every path of    *)
(* the function ends in its return statement) and what it returned.        *)
(***************************************************************************)
Response(bodyUsed, contentType, body, textFails, status) ==
    [bodyUsed |-> bodyUsed, contentType |-> contentType, body |-> body,
     textFails |-> textFails, status |-> status]

AlreadyConsumed == "[Response body already consumed]"
InvalidFormat == "[Invalid response format]"
BinaryData == "[Binary Data]"
ErrorReading == "[Error reading response]"

\* contentType.includes("text/") || contentType.includes("application/json")
IsTextual(contentType) ==
    contentType \in {"text/html", "application/json; charset=utf-8"}

\* The record parseResponse returns.
Parsed(response, body) ==
    [status |-> response.status, contentType |-> response.contentType,
     body |-> body]

NotParsed == [status |-> 0, contentType |-> "", body |-> ""]

ParseRun(given, response, st, reads, out) ==
    [given |-> given, response |-> response, st |-> st, reads |-> reads,
     out |-> out]

NoResponseGiven == Response(FALSE, "", "", FALSE, 0)

NotParsing == ParseRun(NoResponseGiven, NoResponseGiven, "none", 0, NotParsed)

\* (A variant that never looks at bodyUsed.)
BodyNeverUsed(response) == FALSE

\* response.bodyUsed
BodyUsed(response) == response.bodyUsed

\* parseResponse(response), up to its first await: a response whose body
\* was read gets the placeholder, any other has its body read by text().
ParseStart(response) ==
    IF BodyUsed(response)
    THEN ParseRun(response, response, "done", 0,
                  Parsed(response, AlreadyConsumed))
    ELSE ParseRun(response, [response EXCEPT !.bodyUsed = TRUE], "text", 1,
                  NotParsed)

\* (A variant in which an empty text is kept.)
TextAsRead(text) == text

\* text === "" ? "[Binary Data]" : text
TextOrSentinel(text) == IF text = "" THEN BinaryData ELSE text

\* await response.text() is over.  text() rejects when the body was read
\* before or the stream fails; the inner catch of the textual branch gives
\* one placeholder, the outer catch another.
ParseEnd(run) ==
    LET response == run.response
        rejects == response.textFails \/ run.given.bodyUsed
        body == IF IsTextual(response.contentType)
                THEN IF rejects THEN InvalidFormat ELSE response.body
                ELSE IF rejects THEN ErrorReading
                ELSE TextOrSentinel(response.body)
    IN  ParseRun(run.given, response, "done", run.reads, Parsed(response, body))

(***************************************************************************)
(* State.                                                                  *)
(***************************************************************************)
VARIABLES
    page,                 \* the page's globals
    created,              \* created[i]: the constructor of interceptor i ran
    options,              \* this.options
    originalFetch,        \* this.originalFetch
    requestMiddlewares,   \* this.requestMiddlewares, in insertion order
    responseMiddlewares,  \* this.responseMiddlewares, in insertion order
    subscriptions,        \* this.subscriptions
    installSeq,           \* runs of setupInterceptor so far
    log,                  \* history: the lifecycle operations performed
    lastCleanup,          \* history: the closures the last cleanup ran, in order
    returned,             \* history: what the last registry method returned
    inserted,             \* history: the ids registered, by time of insertion
    calls,                \* the fetch calls made so far
    xhrs,                 \* the XMLHttpRequest objects of the page
    forms,                \* the form submissions of the page
    parsing               \* a call of parseResponse on a response of the page

lifeVars == <<page, created, options, originalFetch, subscriptions,
              installSeq, log, lastCleanup>>
registryVars == <<requestMiddlewares, responseMiddlewares, returned, inserted>>

vars == <<lifeVars, registryVars, calls, xhrs, forms, parsing>>

Calls == 1..Len(calls)
Xhrs == 1..Len(xhrs)
Forms == 1..Len(forms)

NoGiven == [delayFormSubmitForFetch |-> FALSE]

\* What a method of the registry returned: the method (op) and interceptor,
\* the id it was called with, the id it stored a middleware under (stored,
\* "" when it stored none), the kind of value returned (k), the value when
\* it is an id and, for getMiddlewareIds, the two arrays.
Returned(op, self, id, k, request, response) ==
    [op |-> op, self |-> self, id |-> id, stored |-> "", k |-> k,
     value |-> "", request |-> request, response |-> response]

NothingReturned == Returned("none", 0, "", "undefined", <<>>, <<>>)

Program ==
    /\ page = NativePage
    /\ created = [i \in Interceptors |-> FALSE]
    /\ options = [i \in Interceptors |-> ConstructorOptions(NoGiven)]
    /\ originalFetch = [i \in Interceptors |-> NativeFetch]
    /\ requestMiddlewares = [i \in Interceptors |-> <<>>]
    /\ responseMiddlewares = [i \in Interceptors |-> <<>>]
    /\ returned = NothingReturned
    /\ inserted = [i \in Interceptors |-> [request |-> <<>>, response |-> <<>>]]
    /\ subscriptions = [i \in Interceptors |-> <<>>]
    /\ installSeq = 0
    /\ log = <<>>
    /\ lastCleanup = <<>>
    /\ calls = <<>>
    /\ xhrs = <<>>
    /\ forms = <<>>

Init == Program /\ parsing = NotParsing

(***************************************************************************)
(* Lifecycle operations.                                                   *)
(***************************************************************************)
\* new RequestInterceptor(given)
Construct(self, given) ==
    /\ ~created[self]
    /\ LET o == ConstructorOptions(given)
           orig == Bind(ReadFetch(page))
           r == setupInterceptor(page, self, o, orig, installSeq + 1)
       IN  /\ created' = [created EXCEPT ![self] = TRUE]
           /\ options' = [options EXCEPT ![self] = o]
           /\ originalFetch' = [originalFetch EXCEPT ![self] = orig]
           /\ page' = r.page
           /\ subscriptions' = [subscriptions EXCEPT ![self] = @ \o r.subs]
           /\ installSeq' = installSeq + 1
           /\ log' = Append(log, [op |-> "install", self |-> self, pre |-> page,
                                options |-> o])
    /\ UNCHANGED <<parsing, registryVars, lastCleanup, calls, xhrs, forms>>

\* updateOptions(given)
updateOptions(self, given) ==
    /\ created[self]
    /\ LET o == MergeOptions(options[self], given)
           r == setupInterceptor(page, self, o, originalFetch[self], installSeq + 1)
       IN  /\ options' = [options EXCEPT ![self] = o]
           /\ page' = r.page
           /\ subscriptions' = [subscriptions EXCEPT ![self] = @ \o r.subs]
           /\ installSeq' = installSeq + 1
           /\ log' = Append(log, [op |-> "update", self |-> self, pre |-> page,
                                options |-> o])
    /\ UNCHANGED <<parsing, created, originalFetch, registryVars, lastCleanup, calls,
                   xhrs, forms>>

\* (A variant in which the registries keep their entries.)
MapClearKeeping(reg) == reg

\* Map.prototype.clear()
MapClear(reg) == <<>>

\* (A variant in which cleanup leaves the closures in the array.)
SubscriptionsKept(subs) == subs

\* this.subscriptions = []
SubscriptionsAfterCleanup(subs) == <<>>

\* cleanup()
cleanup(self) ==
    /\ created[self]
    /\ LET order == CleanupOrder(subscriptions[self])
       IN  /\ page' = RunClosures(page, subscriptions[self], order)
           /\ lastCleanup' = order
    /\ subscriptions' = [subscriptions EXCEPT ![self] = SubscriptionsAfterCleanup(@)]
    /\ requestMiddlewares' = [requestMiddlewares EXCEPT ![self] = MapClear(@)]
    /\ responseMiddlewares' = [responseMiddlewares EXCEPT ![self] = MapClear(@)]
    /\ returned' = Returned("cleanup", self, "", "undefined", <<>>, <<>>)
    /\ inserted' = [inserted EXCEPT ![self] = [request |-> <<>>, response |-> <<>>]]
    /\ calls' = [c \in Calls |-> ClearedUnder(calls[c], self)]
    /\ xhrs' = [x \in Xhrs |-> [xhrs[x] EXCEPT !.tasks = TasksCleared(@, self)]]
    /\ forms' = [f \in Forms |->
                    [forms[f] EXCEPT !.replays = ReplaysCleared(@, self)]]
    /\ log' = Append(log, [op |-> "cleanup", self |-> self, pre |-> page,
                            options |-> options[self]])
    /\ UNCHANGED <<parsing, created, options, originalFetch, installSeq>>

(***************************************************************************)
(* Registering middlewares.                                                *)
(***************************************************************************)
HasId(reg, id) == \E j \in 1..Len(reg) : reg[j].id = id

\* (A variant in which set always appends an entry.)
MapSetAppending(reg, id, fn) == Append(reg, [id |-> id, kind |-> fn])

\* (A variant in which a key set again moves to the end.)
MapSetMovingToEnd(reg, id, fn) ==
    Append(SelectSeq(reg, LAMBDA e : e.id # id), [id |-> id, kind |-> fn])

\* Map.prototype.set: a new key is appended, a present key keeps its place
\* and takes the new value.
MapSet(reg, id, fn) ==
    IF HasId(reg, id)
    THEN [j \in 1..Len(reg) |->
            IF reg[j].id = id THEN [id |-> id, kind |-> fn] ELSE reg[j]]
    ELSE Append(reg, [id |-> id, kind |-> fn])

\* (A variant of delete that reports success and leaves the entry.)
MapDeleteKeeping(reg, id) == reg

\* Map.prototype.delete
MapDelete(reg, id) == SelectSeq(reg, LAMBDA e : e.id # id)

\* The place of id among the entries, 0 when it is not there.
PlaceOf(reg, id) ==
    IF HasId(reg, id) THEN CHOOSE j \in 1..Len(reg) : reg[j].id = id ELSE 0

\* The ids registered, in the order of their insertion: an id is inserted
\* when it is added while not registered.
InsertedAfterAdd(ids, id) ==
    IF \E j \in 1..Len(ids) : ids[j] = id THEN ids ELSE Append(ids, id)

InsertedAfterRemove(ids, id) == SelectSeq(ids, LAMBDA x : x # id)

\* An id that was not given (null, undefined or the empty string), and what
\* `req_${Date.now()}_${Math.random()...}` and `resp_...` can produce.
Omitted == ""
GeneratedRequestIds == {"req_1", "req_2"}
GeneratedResponseIds == {"resp_1", "resp_2"}

\* id || generated
FinalId(id, generated) == IF id = Omitted THEN generated ELSE id

\* What addRequestMiddleware and addResponseMiddleware return: they have no
\* return statement.
AddReturns(op, self, id, stored) ==
    [Returned(op, self, id, "undefined", <<>>, <<>>) EXCEPT !.stored = stored]

\* addRequestMiddleware(middleware, id); fn is the kind of the function, or
\* "notAFunction".
addRequestMiddleware(self, fn, id) ==
    /\ created[self]
    /\ \E generated \in GeneratedRequestIds :
          LET finalId == FinalId(id, generated)
          IN  /\ returned' = AddReturns("addRequestMiddleware", self, id,
                                        IF fn = "notAFunction" THEN "" ELSE finalId)
              /\ IF fn = "notAFunction"
                 THEN UNCHANGED <<parsing, requestMiddlewares, inserted>>
                 ELSE /\ requestMiddlewares' =
                            [requestMiddlewares EXCEPT ![self] = MapSet(@, finalId, fn)]
                      /\ inserted' = [inserted EXCEPT ![self].request =
                                         InsertedAfterAdd(@, finalId)]
    /\ UNCHANGED <<parsing, lifeVars, responseMiddlewares, calls, xhrs, forms>>

\* addResponseMiddleware(middleware, id)
addResponseMiddleware(self, fn, id) ==
    /\ created[self]
    /\ \E generated \in GeneratedResponseIds :
          LET finalId == FinalId(id, generated)
          IN  /\ returned' = AddReturns("addResponseMiddleware", self, id,
                                        IF fn = "notAFunction" THEN "" ELSE finalId)
              /\ IF fn = "notAFunction"
                 THEN UNCHANGED <<parsing, responseMiddlewares, inserted>>
                 ELSE /\ responseMiddlewares' =
                            [responseMiddlewares EXCEPT ![self] = MapSet(@, finalId, fn)]
                      /\ inserted' = [inserted EXCEPT ![self].response =
                                         InsertedAfterAdd(@, finalId)]
    /\ UNCHANGED <<parsing, lifeVars, requestMiddlewares, calls, xhrs, forms>>

\* removeRequestMiddleware(id): returns what Map.prototype.delete returns.
removeRequestMiddleware(self, id) ==
    /\ created[self]
    /\ requestMiddlewares' =
          [requestMiddlewares EXCEPT ![self] = MapDelete(@, id)]
    /\ returned' = Returned("removeRequestMiddleware", self, id,
                            IF HasId(requestMiddlewares[self], id)
                            THEN "true" ELSE "false", <<>>, <<>>)
    /\ inserted' = [inserted EXCEPT ![self].request = InsertedAfterRemove(@, id)]
    /\ UNCHANGED <<parsing, lifeVars, responseMiddlewares, calls, xhrs, forms>>

\* Map.prototype.delete under a running iterator: an iterator that has
\* passed the entry at place p has one entry less behind it.
CursorAfterDelete(task, self, owner, p) ==
    IF owner = self /\ task.st = "awaiting" /\ p > 0 /\ task.idx >= p
    THEN [task EXCEPT !.idx = @ - 1]
    ELSE task

\* removeResponseMiddleware(id)
removeResponseMiddleware(self, id) ==
    LET p == PlaceOf(responseMiddlewares[self], id)
    IN  /\ created[self]
        /\ responseMiddlewares' =
              [responseMiddlewares EXCEPT ![self] = MapDelete(@, id)]
        /\ returned' = Returned("removeResponseMiddleware", self, id,
                                IF p > 0 THEN "true" ELSE "false", <<>>, <<>>)
        /\ inserted' = [inserted EXCEPT ![self].response =
                           InsertedAfterRemove(@, id)]
        /\ calls' = [c \in Calls |->
              [calls[c] EXCEPT !.layers =
                 [l \in 1..Len(calls[c].layers) |->
                    [calls[c].layers[l] EXCEPT !.task =
                        CursorAfterDelete(@, self, calls[c].layers[l].self, p)]]]]
        /\ xhrs' = [x \in Xhrs |->
              [xhrs[x] EXCEPT !.tasks =
                 [t \in 1..Len(xhrs[x].tasks) |->
                    CursorAfterDelete(xhrs[x].tasks[t], self,
                                      xhrs[x].tasks[t].self, p)]]]
        /\ forms' = [f \in Forms |->
              [forms[f] EXCEPT !.replays =
                 [r \in 1..Len(forms[f].replays) |->
                    [forms[f].replays[r] EXCEPT !.task =
                        CursorAfterDelete(@, self, forms[f].replays[r].self, p)]]]]
        /\ UNCHANGED <<parsing, lifeVars, requestMiddlewares>>

\* Array.from(map.keys())
Keys(reg) == [j \in 1..Len(reg) |-> reg[j].id]

\* getMiddlewareIds()
getMiddlewareIds(self) ==
    /\ created[self]
    /\ returned' = Returned("getMiddlewareIds", self, "", "ids",
                            Keys(requestMiddlewares[self]),
                            Keys(responseMiddlewares[self]))
    /\ UNCHANGED <<parsing, lifeVars, requestMiddlewares, responseMiddlewares, inserted,
                   calls, xhrs, forms>>

(***************************************************************************)
(* parseResponse called on a response.                                     *)
(***************************************************************************)
\* parseResponse(response) is called.
parseResponse ==
    /\ parsing.st = "given"
    /\ parsing' = ParseStart(parsing.response)
    /\ UNCHANGED <<lifeVars, registryVars, calls, xhrs, forms>>

\* The body has been read, or reading it has failed.
parseTextSettles ==
    /\ parsing.st = "text"
    /\ parsing' = ParseEnd(parsing)
    /\ UNCHANGED <<lifeVars, registryVars, calls, xhrs, forms>>

(***************************************************************************)
(* A fetch call.                                                           *)
(***************************************************************************)
\* Calling the function f with the arguments a, up to the first await: a
\* bound function calls its target, a wrapper builds its record and calls
\* the request middlewares, the native fetch starts the real call.  When the
\* map over the middlewares throws, the wrapper's catch runs and it calls
\* the wrapped function in the same turn.
RECURSIVE Invoke(_, _, _, _)
Invoke(call, c, f, a) ==
    IF f.k = "bound" THEN Invoke(call, c, f.target, a)
    ELSE IF IsWrapper(f)
    THEN LET l == Len(call.layers) + 1
             fresh == NewLayer(f, a, RequestId("req", c, l))
             m == MapMiddlewares(requestMiddlewares[f.self], 1, <<>>, fresh.rec)
             layer == [fresh EXCEPT !.rec = m.rec, !.mw = m.mw,
                                    !.st = IF m.threw THEN "base" ELSE "middlewares"]
             entered == [call EXCEPT !.layers = Append(@, layer)]
         IN  IF m.threw
             THEN Invoke(entered, c, layer.base, DispatchArg(layer))
             ELSE entered
    ELSE [call EXCEPT !.net = "pending", !.sent = a, !.leaf = f]

\* The call number c of the function f with the arguments a, made by `by`.
StartCall(by, c, f, a) == Invoke(NewCall(by, f, a), c, f, a)

\* The page calls window.fetch(a).
fetchCall(a) ==
    /\ calls' = Append(calls,
          [StartCall("page", Len(calls) + 1, ReadFetch(page), a)
              EXCEPT !.at = Len(log)])
    /\ UNCHANGED <<parsing, lifeVars, registryVars, xhrs, forms>>

\* The page assigns window.fetch = v.
pageAssignsFetch(v) ==
    /\ page' = AssignFetch(page, v)
    /\ log' = Append(log, [op |-> "assign", self |-> 0, pre |-> page,
                            value |-> v])
    /\ UNCHANGED <<parsing, created, options, originalFetch, subscriptions, installSeq,
                   lastCleanup, registryVars, calls, xhrs, forms>>

\* The promise of one request middleware call settles.
requestMiddlewareSettles(c, l, j) ==
    /\ l \in 1..Len(calls[c].layers)
    /\ CanSettle(calls[c].layers[l].mw, j)
    /\ calls' = [calls EXCEPT ![c].layers[l].mw = Settled(@, j)]
    /\ UNCHANGED <<parsing, lifeVars, registryVars, xhrs, forms>>

\* await Promise.all(...) is over, by a resolution or by a rejection that
\* the catch swallows: the wrapper calls the wrapped function.
fetchResume(c) ==
    LET call == calls[c]
        l == Len(call.layers)
    IN  /\ l > 0
        /\ call.layers[l].st = "middlewares"
        /\ PromiseAllSettled(call.layers[l].mw)
        /\ calls' = [calls EXCEPT ![c] =
              Invoke([call EXCEPT !.layers[l].st = "base"], c,
                     call.layers[l].base, DispatchArg(call.layers[l]))]
        /\ UNCHANGED <<parsing, lifeVars, registryVars, xhrs, forms>>

\* The real call settles.  A call that went through no wrapper hands the
\* native promise to the page.
nativeSettles(c, ok) ==
    LET call == calls[c]
        response == IF ok THEN NativeResponse(call.sent, 200)
                    ELSE NativeError(call.sent)
    IN  /\ call.net = "pending"
        /\ ok => ~NativeRejects(call.sent)
        /\ calls' = [calls EXCEPT ![c] =
              [call EXCEPT
                 !.net = IF ok THEN "ok" ELSE "failed",
                 !.response = response,
                 !.st = IF call.layers # <<>> THEN @
                        ELSE IF ok THEN "resolved" ELSE "rejected",
                 !.result = IF call.layers = <<>> THEN response ELSE @]]
        /\ UNCHANGED <<parsing, lifeVars, registryVars, xhrs, forms>>

\* (A variant of the loop without the try around the call: a function that
\* throws ends the run.)
ResponseLoopAborting(task, reg) ==
    IF task.idx >= Len(reg)
    THEN [task EXCEPT !.st = "done", !.cur = "none"]
    ELSE LET e == reg[task.idx + 1]
             called == [task EXCEPT !.idx = @ + 1, !.called = Append(@, e.id)]
         IN  IF e.kind = "throw"
             THEN [called EXCEPT !.st = "done", !.cur = "none"]
             ELSE [called EXCEPT !.st = "awaiting", !.cur = e.kind]

\* for (const middleware of this.responseMiddlewares.values()), from the
\* entry after idx to the next await: a function that throws is caught and
\* the loop goes on in the same turn.
RECURSIVE ResponseLoop(_, _)
ResponseLoop(task, reg) ==
    IF task.idx >= Len(reg)
    THEN [task EXCEPT !.st = "done", !.cur = "none"]
    ELSE LET e == reg[task.idx + 1]
             called == [task EXCEPT !.idx = @ + 1, !.called = Append(@, e.id)]
         IN  IF e.kind = "throw"
             THEN ResponseLoop(called, reg)
             ELSE [called EXCEPT !.st = "awaiting", !.cur = e.kind]

\* Whether a wrapper that has the response starts processResponseMiddlewares:
\* the Proxy handler always does, the other two when the registry is not
\* empty.
StartsResponseTask(layer) ==
    layer.kind = "proxy" \/ Len(responseMiddlewares[layer.self]) > 0

\* What a wrapper returns to its caller.
LayerResult(response) == response

\* A wrapper has the response: it starts processResponseMiddlewares on a
\* clone without awaiting it, and returns the response.
OnResponseAwaitingTask(call, l) ==
    [call EXCEPT
       !.layers[l].st = "task",
       !.layers[l].task = [NoTask EXCEPT !.st = "parse", !.rec = call.layers[l].rec]]

OnResponse(call, l) ==
    [call EXCEPT
       !.layers[l].st = "resolved",
       !.layers[l].task =
           IF StartsResponseTask(call.layers[l])
           THEN [NoTask EXCEPT !.st = "parse", !.rec = call.layers[l].rec,
                               !.response = ResponseForTask(call.response)]
           ELSE @,
       !.st = IF l = 1 THEN "resolved" ELSE @,
       !.result = IF l = 1 THEN LayerResult(call.response) ELSE @]

\* (A variant in which the wrapper throws an error of its own.)
LayerWraps(error) == [error EXCEPT !.k = "wrapped"]

\* catch (error) { ...; throw error }, or no catch at all: what the wrapper
\* rejects with when the wrapped function rejected with error.
LayerRethrows(error) == error

\* The wrapped function's promise has settled and the wrapper goes on: a
\* failure it throws on to its caller.
layerReturns(c, l) ==
    LET call == calls[c]
        inner == IF l = Len(call.layers) THEN call.net
                 ELSE IF call.layers[l + 1].st = "resolved" THEN "ok"
                 ELSE IF call.layers[l + 1].st = "rejected" THEN "failed"
                 ELSE "pending"
    IN  /\ l \in 1..Len(call.layers)
        /\ call.layers[l].st = "base"
        /\ inner \in {"ok", "failed"}
        /\ calls' = [calls EXCEPT ![c] =
              IF inner = "ok"
              THEN OnResponse(call, l)
              ELSE [call EXCEPT
                      !.layers[l].st = "rejected",
                      !.st = IF l = 1 THEN "rejected" ELSE @,
                      !.result = IF l = 1 THEN LayerRethrows(call.response)
                                 ELSE @]]
        /\ UNCHANGED <<parsing, lifeVars, registryVars, xhrs, forms>>

\* parseResponse has read the clone: the loop over the response middlewares
\* starts.
responseParsed(c, l) ==
    /\ l \in 1..Len(calls[c].layers)
    /\ calls[c].layers[l].task.st = "parse"
    /\ calls' = [calls EXCEPT
          ![c].layers[l].task =
              ResponseLoop([@ EXCEPT !.parsedId =
                               ResponseIdOrNull(calls[c].layers[l].task.response)],
                           responseMiddlewares[calls[c].layers[l].self]),
          ![c].read = @ \cup {calls[c].layers[l].task.response}]
    /\ UNCHANGED <<parsing, lifeVars, registryVars, xhrs, forms>>

\* The promise of the response middleware awaited settles; a rejection is
\* caught, and the loop goes on.
responseMiddlewareSettles(c, l) ==
    /\ l \in 1..Len(calls[c].layers)
    /\ calls[c].layers[l].task.st = "awaiting"
    /\ calls[c].layers[l].task.cur # "hang"
    /\ calls' = [calls EXCEPT ![c].layers[l].task =
          ResponseLoop(@, responseMiddlewares[calls[c].layers[l].self])]
    /\ UNCHANGED <<parsing, lifeVars, registryVars, xhrs, forms>>

(***************************************************************************)
(* An XMLHttpRequest object of the page.                                   *)
(*   heap     the requestInfo objects made for it, in order of creation    *)
(*   map      its entries in the requestInfoMap of each installation: n is *)
(*            the installation, at the place of the object in heap         *)
(*   handler  its onreadystatechange property                              *)
(*   sends    the runs of the send wrapper on it, in order                 *)
(*   native   the calls of the native open, setRequestHeader and send      *)
(*   seen     the readyState at each call of the page's handler            *)
(*   tasks    the runs of processResponseMiddlewares started for it        *)
(***************************************************************************)
NoHandler == [k |-> "none"]
PageHandler == [k |-> "page"]

\* History: what the page has configured on an object since its last open,
\* the method given to open, the headers set with the last value of each,
\* and the body given to send once it was called.
Configured(method, headers, body) ==
    [method |-> method, headers |-> headers, body |-> body]

NotConfigured == Configured("none", {}, "unsent")

NewXhr ==
    [heap |-> <<>>, map |-> {}, handler |-> NoHandler, sends |-> <<>>,
     native |-> <<>>, readyState |-> 0, net |-> "none", seen |-> <<>>,
     tasks |-> <<>>, asked |-> <<>>, config |-> NotConfigured,
     fired |-> <<>>, since |-> 0]

NativeCall(op, a, b) == [op |-> op, a |-> a, b |-> b]

\* requestInfoMap.get(this), as a place in heap; 0 when there is none
InfoAt(xhr, n) ==
    IF \E e \in xhr.map : e.n = n
    THEN (CHOOSE e \in xhr.map : e.n = n).at
    ELSE 0

\* requestInfo.headers[header] = value
HeaderSet(headers, name, value) ==
    {h \in headers : h.name # name} \cup {[name |-> name, value |-> value]}

\* A readystatechange event: the n-th of the object, at readyState rs.
Event(n, rs) == [n |-> n, rs |-> rs]

\* (A variant in which the wrapper calls the original handler with no
\* arguments.)
NoArguments(event) == Event(0, 0)

\* originalHandler.apply(this, arguments): what the original handler is
\* called with when the wrapper was called with event.
Arguments(event) == event

\* The wrapper of onreadystatechange, and whatever it wraps: the original
\* handler runs first; at readyState 4 a Response is built and
\* processResponseMiddlewares is started on it, without being awaited.
\* History: seen, the events the page's handler was called with; for a
\* response run the event it was started at (event) and the number of calls
\* of the page's handler before it (heard).
RECURSIVE RunHandler(_, _, _)
RunHandler(xhr, h, event) ==
    IF h.k = "page" THEN [xhr EXCEPT !.seen = Append(@, event)]
    ELSE IF h.k = "rcHandler"
    THEN LET after == RunHandler(xhr, h.originalHandler, Arguments(event))
         IN  IF after.readyState = 4
             THEN [after EXCEPT !.tasks = Append(@,
                      [self |-> h.self, info |-> h.info, st |-> "parse",
                       idx |-> 0, cur |-> "none", called |-> <<>>,
                       event |-> Len(after.fired), heard |-> Len(after.seen)])]
             ELSE after
    ELSE xhr

\* A readystatechange event.  History: fired, the events so far.
FireReadyState(xhr, rs) ==
    LET event == Event(Len(xhr.fired) + 1, rs)
        at == [xhr EXCEPT !.readyState = rs, !.fired = Append(@, event)]
    IN  RunHandler(at, at.handler, event)

\* open(method, url), from the function the prototype holds down to the
\* native one: each wrapper makes a new requestInfo and stores it in its map.
RECURSIVE OpenWalk(_, _, _, _, _)
OpenWalk(xhr, x, f, method, url) ==
    IF f.k = "openWrap"
    THEN LET requestInfo ==
                 [id |-> RequestId("xhr", x, Len(xhr.heap) + 1),
                  url |-> UrlAgainstLocation(url),
                  method |-> IF method = "omitted" THEN "GET" ELSE method,
                  headers |-> {}, body |-> "none"]
         IN  OpenWalk([xhr EXCEPT
                          !.heap = Append(@, requestInfo),
                          !.map = {e \in @ : e.n # f.n}
                                    \cup {[n |-> f.n, at |-> Len(xhr.heap) + 1]}],
                      x, f.originalOpen, method, url)
    ELSE FireReadyState(
            [xhr EXCEPT !.native = Append(@, NativeCall("open", method, url)),
                        !.net = "none"], 1)

\* setRequestHeader(header, value)
RECURSIVE SetRequestHeaderWalk(_, _, _, _)
SetRequestHeaderWalk(xhr, f, header, value) ==
    IF f.k = "setRequestHeaderWrap"
    THEN LET at == InfoAt(xhr, f.n)
         IN  SetRequestHeaderWalk(
                IF at # 0 /\ header # "" /\ value # ""
                THEN [xhr EXCEPT !.heap[at].headers = HeaderSet(@, header, value)]
                ELSE xhr,
                f.originalSetRequestHeader, header, value)
    ELSE [xhr EXCEPT !.native =
             Append(@, NativeCall("setRequestHeader", header, value))]

\* (A variant in which a wrapper without requestInfo calls the wrapped send
\* with no argument.)
PassedOnNothing(data) == "none"

\* originalSend.apply(this, arguments): the arguments of the wrapped send
\* when the wrapper was called with data.
PassedOn(data) == data

\* send(data), up to the first await.  A wrapper that finds its requestInfo
\* stores the body, wraps onreadystatechange, calls the request middlewares
\* and leaves the wrapped send for later; one that finds none calls the
\* wrapped send at once.
RECURSIVE SendWalk(_, _, _)
SendWalk(xhr, f, data) ==
    IF f.k = "sendWrap"
    THEN LET at == InfoAt(xhr, f.n)
         IN  IF at # 0
             THEN LET m == MapMiddlewares(requestMiddlewares[f.self], 1, <<>>,
                                          [xhr.heap[at] EXCEPT !.body = data])
                  IN  [xhr EXCEPT
                         !.heap[at] = m.rec,
                         !.handler = [k |-> "rcHandler", self |-> f.self,
                                      info |-> at, originalHandler |-> xhr.handler],
                         !.sends = Append(@,
                             [self |-> f.self, n |-> f.n, info |-> at,
                              mw |-> m.mw, st |-> "middlewares",
                              originalSend |-> f.originalSend,
                              config |-> xhr.config])]
             ELSE SendWalk(xhr, f.originalSend, PassedOn(data))
    ELSE IF xhr.readyState = 1 /\ xhr.net = "none"
    THEN [xhr EXCEPT !.native = Append(@, NativeCall("send", data, "")),
                     !.net = "pending"]
    ELSE \* the native send throws InvalidStateError: not opened, or sent already
         [xhr EXCEPT !.native = Append(@, NativeCall("sendThrows", data, ""))]

\* new XMLHttpRequest()
xhrNew ==
    /\ xhrs' = Append(xhrs, NewXhr)
    /\ UNCHANGED <<parsing, lifeVars, registryVars, calls, forms>>

\* xhr.open(method, url)
xhrOpen(x, method, url) ==
    /\ xhrs' = [xhrs EXCEPT ![x] =
          OpenWalk([@ EXCEPT !.config = Configured(method, {}, "unsent")],
                   x, page.open, method, url)]
    /\ UNCHANGED <<parsing, lifeVars, registryVars, calls, forms>>

\* xhr.setRequestHeader(header, value)
xhrSetRequestHeader(x, header, value) ==
    /\ xhrs' = [xhrs EXCEPT ![x] =
          SetRequestHeaderWalk(
             [@ EXCEPT !.config.headers = HeaderSet(@, header, value)],
             page.setRequestHeader, header, value)]
    /\ UNCHANGED <<parsing, lifeVars, registryVars, calls, forms>>

\* The handler a chain of wrappers ends in.
RECURSIVE Innermost(_)
Innermost(h) == IF h.k = "rcHandler" THEN Innermost(h.originalHandler) ELSE h

\* xhr.onreadystatechange = a function of the page.  History: since, the
\* number of events fired before the page first had a handler.
xhrSetHandler(x) ==
    /\ xhrs' = [xhrs EXCEPT
          ![x].handler = PageHandler,
          ![x].since = IF Innermost(xhrs[x].handler) = PageHandler THEN @
                       ELSE Len(xhrs[x].fired)]
    /\ UNCHANGED <<parsing, lifeVars, registryVars, calls, forms>>

\* xhr.send(data)
xhrSend(x, data) ==
    /\ xhrs' = [xhrs EXCEPT ![x] =
          SendWalk([@ EXCEPT !.asked = Append(@, data), !.config.body = data],
                   page.send, data)]
    /\ UNCHANGED <<parsing, lifeVars, registryVars, calls, forms>>

\* The promise of one request middleware call settles.
xhrMiddlewareSettles(x, l, j) ==
    /\ l \in 1..Len(xhrs[x].sends)
    /\ CanSettle(xhrs[x].sends[l].mw, j)
    /\ xhrs' = [xhrs EXCEPT ![x].sends[l].mw = Settled(@, j)]
    /\ UNCHANGED <<parsing, lifeVars, registryVars, calls, forms>>

\* runRequestMiddlewares().then(...): the wrapped send is called with the
\* body the requestInfo holds by now.
xhrResume(x, l) ==
    LET xhr == xhrs[x]
    IN  /\ l \in 1..Len(xhr.sends)
        /\ xhr.sends[l].st = "middlewares"
        /\ MiddlewaresOver(xhr.sends[l].mw)
        /\ xhrs' = [xhrs EXCEPT ![x] =
              SendWalk([xhr EXCEPT !.sends[l].st = "sent"],
                       xhr.sends[l].originalSend,
                       xhr.heap[xhr.sends[l].info].body)]
        /\ UNCHANGED <<parsing, lifeVars, registryVars, calls, forms>>

\* The real call moves on: readyState 2, 3 and then 4, each with its event.
xhrProgress(x) ==
    /\ xhrs[x].net = "pending"
    /\ xhrs' = [xhrs EXCEPT ![x] =
          LET fired == FireReadyState(@, IF @.readyState < 2 THEN 2
                                         ELSE @.readyState + 1)
          IN  [fired EXCEPT !.net = IF fired.readyState = 4 THEN "done" ELSE @]]
    /\ UNCHANGED <<parsing, lifeVars, registryVars, calls, forms>>

\* parseResponse is over for a response run: the loop over the response
\* middlewares starts; or the middleware awaited has settled and it goes on.
xhrTaskStep(x, t) ==
    LET task == xhrs[x].tasks[t]
    IN  /\ t \in 1..Len(xhrs[x].tasks)
        /\ \/ task.st = "parse"
           \/ task.st = "awaiting" /\ task.cur # "hang"
        /\ xhrs' = [xhrs EXCEPT ![x].tasks[t] =
              ResponseLoop(@, responseMiddlewares[task.self])]
        /\ UNCHANGED <<parsing, lifeVars, registryVars, calls, forms>>

(***************************************************************************)
(* A form of the page: its method (upper-cased) and action as the form's   *)
(* properties give them, its fields as pairs of a name and a value, each a *)
(* sequence of characters, how it was submitted (via), the runs of         *)
(* replayFormSubmission on it and the number of native submissions.        *)
(*   replay.self   the interceptor whose closure runs                      *)
(*   replay.after  the function the submit handler calls once the replay   *)
(*                 is over (delayed mode), or NoFunction                   *)
(*   replay.rec    requestData                                             *)
(*   replay.call   the call of self.originalFetch, as a place in calls     *)
(***************************************************************************)
NoFunction == [k |-> "none"]
FormContentType ==
    [name |-> "Content-Type", value |-> "application/x-www-form-urlencoded"]

NewForm(method, action, fields) ==
    [method |-> method, action |-> action, fields |-> fields,
     replays |-> <<>>, native |-> 0, via |-> "none"]

Field(name, value) == [name |-> name, value |-> value]

\* The application/x-www-form-urlencoded serializer, one character and a
\* sequence of characters.
EncodeChar(c) ==
    CASE c = " " -> "+"
      [] c = "&" -> "%26"
      [] c = "=" -> "%3D"
      [] c = "?" -> "%3F"
      [] OTHER -> c

RECURSIVE Encode(_)
Encode(chars) ==
    IF chars = <<>> THEN "" ELSE EncodeChar(Head(chars)) \o Encode(Tail(chars))

\* new URLSearchParams() filled from the fields, toString()
RECURSIVE Params(_)
Params(fields) ==
    IF fields = <<>> THEN ""
    ELSE LET pair == Encode(fields[1].name) \o "=" \o Encode(fields[1].value)
         IN  IF Len(fields) = 1 THEN pair
             ELSE pair \o "&" \o Params(Tail(fields))

\* (A variant in which the fields always start the query string.)
WithParamsAsQuery(action, params) == [action EXCEPT !.query = params]

\* `${action}${separator}${params.toString()}`
WithParams(action, params) ==
    [action EXCEPT !.query = IF @ = "" THEN params ELSE @ \o "&" \o params]

\* (A variant in which the replay calls window.fetch.)
ReplayByWindowFetch(self) == ReadFetch(page)

\* self.originalFetch, the function the replay calls
ReplayBy(self) == originalFetch[self]

\* The part of replayFormSubmission after the request middlewares: the fetch
\* options are built from the action and method read at the start and the
\* headers requestData holds by now, and self.originalFetch is called.
ReplayFetch(w, fi, r) ==
    LET form == w.forms[fi]
        replay == form.replays[r]
        params == Params(form.fields)
        fetchUrl == IF form.method = "GET" THEN WithParams(form.action, params)
                    ELSE form.action
        body == IF form.method = "POST" THEN params ELSE "none"
        c == Len(w.calls) + 1
    IN  [forms |-> [w.forms EXCEPT ![fi].replays[r] =
                      [replay EXCEPT
                         !.st = "fetch", !.call = c,
                         !.rec.body = IF form.method = "POST" THEN body ELSE @,
                         !.rec.url = IF form.method = "GET" THEN fetchUrl ELSE @]],
         calls |-> Append(w.calls,
                      StartCall("form", c, ReplayBy(replay.self),
                                FetchArg("string", fetchUrl, form.method,
                                         replay.rec.headers, body)))]

\* replayFormSubmission(form), up to its first await.
ReplayStart(w, fi, self, after) ==
    LET form == w.forms[fi]
        r == Len(form.replays) + 1
        requestData == [id |-> RequestId("form", fi, r), url |-> form.action,
                        method |-> form.method, headers |-> {FormContentType},
                        body |-> "none"]
        m == MapMiddlewares(requestMiddlewares[self], 1, <<>>, requestData)
        started == [w EXCEPT !.forms[fi].replays = Append(@,
                      [self |-> self, after |-> after, rec |-> m.rec,
                       mw |-> m.mw, st |-> "middlewares", call |-> 0,
                       task |-> NoTask])]
    IN  IF m.threw THEN ReplayFetch(started, fi, r) ELSE started

\* form.submit(), from the function the prototype holds down to the native
\* one: each wrapper starts a replay and calls the function it wraps.
RECURSIVE SubmitWalk(_, _, _)
SubmitWalk(w, fi, f) ==
    IF f.k = "submitWrap"
    THEN SubmitWalk(ReplayStart(w, fi, f.self, NoFunction), fi, f.originalSubmit)
    ELSE [w EXCEPT !.forms[fi].native = @ + 1]

\* (A variant in which the handler submits after the replay in both modes.)
SubmitsAfterReplayAlways(delay, originalSubmit) == originalSubmit

\* What the submit handler calls once its replay is over: originalSubmit in
\* delayed mode, nothing in immediate mode.
SubmitsAfterReplay(delay, originalSubmit) ==
    IF delay THEN originalSubmit ELSE NoFunction

\* A submit event at the document's capturing listeners, in the order they
\* were added.  A handler in delayed mode prevents the default action and
\* submits by originalSubmit once its replay is over.
RECURSIVE DispatchSubmit(_, _, _, _)
DispatchSubmit(w, fi, listeners, prevented) ==
    IF listeners = <<>> THEN [w |-> w, prevented |-> prevented]
    ELSE LET h == Head(listeners)
             delay == options[h.self].delayFormSubmitForFetch
         IN  DispatchSubmit(
                ReplayStart(w, fi, h.self,
                            SubmitsAfterReplay(delay, h.originalSubmit)),
                fi, Tail(listeners), prevented \/ delay)

\* (A variant in which nothing is called once the replay is over.)
ReplayOverAndNoSubmit(w, fi, r) == [w EXCEPT !.forms[fi].replays[r].st = "done"]

\* replayFormSubmission is over; the handler's then (or catch) submits.
ReplayOver(w, fi, r) ==
    LET over == [w EXCEPT !.forms[fi].replays[r].st = "done"]
        after == w.forms[fi].replays[r].after
    IN  IF after = NoFunction THEN over ELSE SubmitWalk(over, fi, after)

World == [forms |-> forms, calls |-> calls]

\* A form appears on the page.
formNew(method, action, fields) ==
    /\ forms' = Append(forms, NewForm(method, action, fields))
    /\ UNCHANGED <<parsing, lifeVars, registryVars, calls, xhrs>>

\* The user submits the form: the submit event, then the default action
\* unless it was prevented.
formSubmitEvent(fi) ==
    LET d == DispatchSubmit([World EXCEPT !.forms[fi].via = "event"], fi,
                            page.listeners, FALSE)
        w == IF d.prevented THEN d.w
             ELSE [d.w EXCEPT !.forms[fi].native = @ + 1]
    IN  /\ forms' = w.forms
        /\ calls' = w.calls
        /\ UNCHANGED <<parsing, lifeVars, registryVars, xhrs>>

\* The page calls form.submit().
formSubmit(fi) ==
    LET w == SubmitWalk([World EXCEPT !.forms[fi].via = "submit"], fi,
                        page.submit)
    IN  /\ forms' = w.forms
        /\ calls' = w.calls
        /\ UNCHANGED <<parsing, lifeVars, registryVars, xhrs>>

\* The promise of one request middleware call settles.
formMiddlewareSettles(fi, r, j) ==
    /\ r \in 1..Len(forms[fi].replays)
    /\ CanSettle(forms[fi].replays[r].mw, j)
    /\ forms' = [forms EXCEPT ![fi].replays[r].mw = Settled(@, j)]
    /\ UNCHANGED <<parsing, lifeVars, registryVars, calls, xhrs>>

\* await Promise.all(...) of a replay is over.
formResume(fi, r) ==
    /\ r \in 1..Len(forms[fi].replays)
    /\ forms[fi].replays[r].st = "middlewares"
    /\ PromiseAllSettled(forms[fi].replays[r].mw)
    /\ LET w == ReplayFetch(World, fi, r)
       IN  forms' = w.forms /\ calls' = w.calls
    /\ UNCHANGED <<parsing, lifeVars, registryVars, xhrs>>

\* await self.originalFetch(...) is over: a failure is caught and the
\* replay ends, a response is cloned and read.
formFetched(fi, r) ==
    /\ r \in 1..Len(forms[fi].replays)
    /\ forms[fi].replays[r].st = "fetch"
    /\ LET st == calls[forms[fi].replays[r].call].st
       IN  /\ st \in {"resolved", "rejected"}
           /\ LET w == IF st = "rejected" THEN ReplayOver(World, fi, r)
                       ELSE [World EXCEPT !.forms[fi].replays[r].st = "text"]
              IN  forms' = w.forms /\ calls' = w.calls
    /\ UNCHANGED <<parsing, lifeVars, registryVars, xhrs>>

\* await response.clone().text() is over: processResponseMiddlewares is
\* started when the registry is not empty, and the replay ends.
formTextRead(fi, r) ==
    /\ r \in 1..Len(forms[fi].replays)
    /\ forms[fi].replays[r].st = "text"
    /\ LET replay == forms[fi].replays[r]
           tasked == IF Len(responseMiddlewares[replay.self]) > 0
                     THEN [World EXCEPT !.forms[fi].replays[r].task =
                              [NoTask EXCEPT !.st = "parse", !.rec = replay.rec]]
                     ELSE World
           w == ReplayOver(tasked, fi, r)
       IN  forms' = w.forms /\ calls' = w.calls
    /\ UNCHANGED <<parsing, lifeVars, registryVars, xhrs>>

\* The response run of a replay goes on, as for an XMLHttpRequest.
formTaskStep(fi, r) ==
    /\ r \in 1..Len(forms[fi].replays)
    /\ LET task == forms[fi].replays[r].task
       IN  /\ \/ task.st = "parse"
              \/ task.st = "awaiting" /\ task.cur # "hang"
           /\ forms' = [forms EXCEPT ![fi].replays[r].task =
                 ResponseLoop(@, responseMiddlewares[forms[fi].replays[r].self])]
    /\ UNCHANGED <<parsing, lifeVars, registryVars, calls, xhrs>>

(***************************************************************************)
(* The lifecycle alone: interceptors are created, re-configured and        *)
(* cleaned up; the page makes no call.                                     *)
(***************************************************************************)
GivenOptions ==
    { [useGetterForFetch |-> TRUE],
      [useGetterForFetch |-> FALSE, useProxyForFetch |-> TRUE],
      [useGetterForFetch |-> FALSE, useProxyForFetch |-> FALSE],
      [delayFormSubmitForFetch |-> TRUE],
      [disableFetch |-> TRUE],
      [disableXHR |-> TRUE, disableFormIntercept |-> TRUE] }

NumCleanups == Cardinality({j \in 1..Len(log) : log[j].op = "cleanup"})

LifeConstruct ==
    \E i \in Interceptors, g \in GivenOptions :
        installSeq < MaxInstalls /\ Construct(i, g)

LifeUpdate ==
    \E i \in Interceptors, g \in GivenOptions :
        installSeq < MaxInstalls /\ updateOptions(i, g)

LifeCleanup ==
    \E i \in Interceptors : NumCleanups < MaxCleanups /\ cleanup(i)

Next == LifeConstruct \/ LifeUpdate \/ LifeCleanup

Spec == Init /\ [][Next]_vars

(***************************************************************************)
(* The choice of the fetch strategy: interceptors constructed and updated  *)
(* with every combination of the three fetch options, each given or left   *)
(* out.                                                                    *)
(***************************************************************************)
Some(name, values) == {[n \in {name} |-> v] : v \in values}

\* The union of two partial records of options with distinct names.
With(a, b) ==
    [n \in DOMAIN a \cup DOMAIN b |-> IF n \in DOMAIN a THEN a[n] ELSE b[n]]

FetchOptionsGiven ==
    {With(With(d, g), p) :
        d \in {NoGiven} \cup Some("disableFetch", {TRUE}),
        g \in {NoGiven} \cup Some("useGetterForFetch", BOOLEAN),
        p \in {NoGiven} \cup Some("useProxyForFetch", BOOLEAN)}

StrategyConstruct ==
    \E i \in Interceptors, g \in FetchOptionsGiven :
        installSeq < MaxInstalls /\ Construct(i, g)

StrategyUpdate ==
    \E i \in Interceptors, g \in FetchOptionsGiven :
        installSeq < MaxInstalls /\ updateOptions(i, g)

NextStrategy == StrategyConstruct \/ StrategyUpdate

SpecStrategy == Init /\ [][NextStrategy]_vars

\* What the fetch slot holds: the value of a data property, the variable
\* currentFetch of an accessor.
Held(pg) ==
    IF pg.fetch.kind = "data" THEN pg.fetch.value ELSE pg.cells[pg.fetch.cell]

\* The strategy a run of setupInterceptor of interceptor self has put in
\* place between the pages pg and after: a new accessor, a Proxy stored in
\* the slot as it is, or the function of the direct replacement as a data
\* property.
Activated(pg, after, self) ==
    IF Len(after.cells) > Len(pg.cells)
    THEN IF after.fetch = AccessorDesc(self, Len(after.cells))
              /\ after.protoFetch = after.fetch
         THEN "getter" ELSE "other"
    ELSE IF after.fetch.kind = pg.fetch.kind
              /\ Held(after).k = "proxy" /\ Held(after).self = self
    THEN "proxy"
    ELSE IF after.fetch.kind = "data"
              /\ Held(after).k = "direct" /\ Held(after).self = self
    THEN "direct"
    ELSE "none"

\* The strategy the options given to a constructor ask for.
Asked(g) ==
    IF "useGetterForFetch" \in DOMAIN g /\ g.useGetterForFetch THEN "getter"
    ELSE IF "useProxyForFetch" \notin DOMAIN g \/ g.useProxyForFetch
    THEN "proxy"
    ELSE "direct"

FetchDisabled(g) == "disableFetch" \in DOMAIN g /\ g.disableFetch

\* An installation leaves the fetch slot as it was.
FetchSlotUnchanged ==
    /\ page'.fetch = page.fetch
    /\ page'.protoFetch = page.protoFetch
    /\ page'.cells = page.cells

\* C37: each install activates exactly one fetch strategy: the accessor when
\* useGetterForFetch is set, whatever useProxyForFetch is, otherwise the
\* Proxy when useProxyForFetch is set or left out, otherwise the direct
\* replacement; with disableFetch set it leaves the fetch slot unchanged.
C37_OneStrategyPerInstall ==
    [][\A i \in Interceptors :
         /\ (~created[i] /\ created'[i]) =>
                \A g \in FetchOptionsGiven :
                    options'[i] = ConstructorOptions(g) =>
                        IF FetchDisabled(g) THEN FetchSlotUnchanged
                        ELSE Activated(page, page', i) = Asked(g)
         /\ (created[i] /\ installSeq' > installSeq
                /\ log'[Len(log')].self = i) =>
                IF options'[i].disableFetch THEN FetchSlotUnchanged
                ELSE Activated(page, page', i) =
                         (IF options'[i].useGetterForFetch THEN "getter"
                          ELSE IF options'[i].useProxyForFetch THEN "proxy"
                          ELSE "direct")]_vars

\* An interceptor was constructed with useGetterForFetch set and
\* useProxyForFetch cleared, and the slot is its accessor; another was
\* constructed with neither option given.
C37_Witness ==
    /\ Len(log) = 2
    /\ log[1].op = "install" /\ log[2].op = "install"
    /\ log[1].options.useGetterForFetch /\ ~log[1].options.useProxyForFetch
    /\ ~log[2].options.useGetterForFetch /\ log[2].options.useProxyForFetch
    /\ \A j \in 1..2 : ~log[j].options.disableFetch
    /\ page.fetch.kind = "accessor"
    /\ Held(page).k = "proxy"

(***************************************************************************)
(* One interceptor installed once with one of the three fetch strategies,  *)
(* middlewares of every kind, and fetch calls of the page.                 *)
(***************************************************************************)
MaxMiddlewares == 2
MaxFetchCalls == 1

StrategyOptions ==
    { [useGetterForFetch |-> TRUE],
      [useGetterForFetch |-> FALSE, useProxyForFetch |-> TRUE],
      [useGetterForFetch |-> FALSE, useProxyForFetch |-> FALSE] }

MiddlewareIds == <<"a", "b", "c", "d">>

FetchInputs ==
    { FetchArg("string", Url(FALSE, "", TRUE, <<"api", "x">>, ""), "omitted",
               {}, "none"),
      FetchArg("string", Url(TRUE, "https://api.example", TRUE, <<"y">>, ""),
               "POST", {[name |-> "X-Test", value |-> "v"]}, "payload") }

FetchInstall ==
    \E g \in StrategyOptions : installSeq < 1 /\ Construct(1, g)

FetchAddRequest ==
    \E fn \in RequestKinds :
        /\ Len(requestMiddlewares[1]) < MaxMiddlewares
        /\ addRequestMiddleware(1, fn,
              MiddlewareIds[Len(requestMiddlewares[1]) + 1])

FetchAddResponse ==
    \E fn \in ResponseKinds :
        /\ Len(responseMiddlewares[1]) < MaxMiddlewares
        /\ addResponseMiddleware(1, fn,
              MiddlewareIds[Len(responseMiddlewares[1]) + 1])

FetchCall ==
    \E a \in FetchInputs : Len(calls) < MaxFetchCalls /\ fetchCall(a)

FetchRequestSettles ==
    \E c \in Calls, l \in 1..MaxInstalls, j \in 1..MaxMiddlewares :
        requestMiddlewareSettles(c, l, j)

FetchResume == \E c \in Calls : fetchResume(c)

FetchNative == \E c \in Calls, ok \in BOOLEAN : nativeSettles(c, ok)

FetchReturn == \E c \in Calls, l \in 1..MaxInstalls : layerReturns(c, l)

FetchParsed == \E c \in Calls, l \in 1..MaxInstalls : responseParsed(c, l)

FetchResponseSettles ==
    \E c \in Calls, l \in 1..MaxInstalls : responseMiddlewareSettles(c, l)

FetchSteps ==
    \/ FetchRequestSettles
    \/ FetchResume
    \/ FetchNative
    \/ FetchReturn
    \/ FetchParsed
    \/ FetchResponseSettles

NextFetch ==
    \/ FetchInstall
    \/ FetchAddRequest
    \/ FetchAddResponse
    \/ FetchCall
    \/ FetchSteps

SpecFetch == Init /\ [][NextFetch]_vars

(***************************************************************************)
(* The page overrides fetch under the getter/setter strategy: one          *)
(* installation, middlewares registered before the calls, and then         *)
(* assignments to window.fetch and fetch calls in any order.               *)
(***************************************************************************)
MaxAssigns == 2

AssignedValues == {PageFetch, NotAFunction}

Assigns == {i \in 1..Len(log) : log[i].op = "assign"}

OverrideInstall ==
    installSeq < 1 /\ Construct(1, [useGetterForFetch |-> TRUE])

OverrideAddRequest ==
    \E fn \in RequestKinds :
        /\ calls = <<>>
        /\ Len(requestMiddlewares[1]) < 1
        /\ addRequestMiddleware(1, fn, "a")

OverrideAddResponse ==
    \E fn \in ResponseKinds :
        /\ calls = <<>>
        /\ Len(responseMiddlewares[1]) < 1
        /\ addResponseMiddleware(1, fn, "a")

OverrideAssign ==
    \E v \in AssignedValues :
        /\ created[1]
        /\ Cardinality(Assigns) < MaxAssigns
        /\ pageAssignsFetch(v)

OverrideCall ==
    \E a \in FetchInputs :
        created[1] /\ Len(calls) < MaxFetchCalls /\ fetchCall(a)

NextOverride ==
    \/ OverrideInstall
    \/ OverrideAddRequest
    \/ OverrideAddResponse
    \/ OverrideAssign
    \/ OverrideCall
    \/ FetchSteps

SpecOverride == Init /\ [][NextOverride]_vars

(***************************************************************************)
(* Installations stacked on one page: up to StackInstalls runs of          *)
(* setupInterceptor, by the constructor of either interceptor or by        *)
(* updateOptions, and then one probe of the page through the installed     *)
(* wrappers: a fetch call, an XMLHttpRequest or a form submission.         *)
(***************************************************************************)
StackInstalls == 2

StackOptions ==
    { [useGetterForFetch |-> s[1], useProxyForFetch |-> s[2],
       delayFormSubmitForFetch |-> d] :
         s \in {<<TRUE, TRUE>>, <<FALSE, TRUE>>, <<FALSE, FALSE>>},
         d \in BOOLEAN }

XhrInputs ==
    { <<"GET", Url(FALSE, "", FALSE, <<"data">>, "")>>,
      <<"POST", Url(TRUE, "https://api.example", TRUE, <<"y">>, "")>> }

FormInputs ==
    { NewForm("GET", Url(TRUE, LocationOrigin, TRUE, <<"search">>, ""),
              <<Field(<<"q">>, <<"1">>)>>),
      NewForm("POST", Url(TRUE, LocationOrigin, TRUE, <<"login">>, "next=2"),
              <<Field(<<"u", "s", "e", "r">>, <<"u">>),
                Field(<<"p", "a", "s", "s">>, <<"p">>)>>) }

NoProbe == calls = <<>> /\ xhrs = <<>> /\ forms = <<>>

StackConstruct ==
    \E i \in Interceptors, g \in StackOptions :
        NoProbe /\ installSeq < StackInstalls /\ Construct(i, g)

StackUpdate ==
    \E i \in Interceptors, g \in StackOptions :
        NoProbe /\ installSeq < StackInstalls /\ updateOptions(i, g)

StackFetch == \E a \in FetchInputs : NoProbe /\ fetchCall(a)

StackXhrNew == NoProbe /\ xhrNew

StackXhrOpen ==
    \E x \in Xhrs, i \in XhrInputs :
        xhrs[x].native = <<>> /\ xhrOpen(x, i[1], i[2])

StackXhrSetHeader ==
    \E x \in Xhrs :
        /\ Len(xhrs[x].native) = 1
        /\ xhrs[x].sends = <<>>
        /\ xhrSetRequestHeader(x, "X-Test", "v")

StackXhrSetHandler ==
    \E x \in Xhrs :
        /\ xhrs[x].handler = NoHandler
        /\ xhrs[x].sends = <<>>
        /\ xhrs[x].net = "none"
        /\ xhrSetHandler(x)

StackXhrSend ==
    \E x \in Xhrs, data \in {"none", "payload"} :
        /\ xhrs[x].readyState = 1
        /\ xhrs[x].sends = <<>>
        /\ xhrs[x].net = "none"
        /\ xhrSend(x, data)

StackXhrResume == \E x \in Xhrs, l \in 1..StackInstalls : xhrResume(x, l)

StackXhrProgress == \E x \in Xhrs : xhrProgress(x)

StackXhrTask ==
    \E x \in Xhrs, t \in 1..StackInstalls : xhrTaskStep(x, t)

StackFormNew ==
    \E f \in FormInputs : NoProbe /\ formNew(f.method, f.action, f.fields)

NotSubmitted(fi) == forms[fi].replays = <<>> /\ forms[fi].native = 0

StackFormEvent == \E fi \in Forms : NotSubmitted(fi) /\ formSubmitEvent(fi)

StackFormSubmit == \E fi \in Forms : NotSubmitted(fi) /\ formSubmit(fi)

StackFormResume ==
    \E fi \in Forms, r \in 1..(2 * StackInstalls) : formResume(fi, r)

StackFormFetched ==
    \E fi \in Forms, r \in 1..(2 * StackInstalls) : formFetched(fi, r)

StackFormTextRead ==
    \E fi \in Forms, r \in 1..(2 * StackInstalls) : formTextRead(fi, r)

StackFetchSteps ==
    \/ \E c \in Calls : fetchResume(c)
    \/ \E c \in Calls : nativeSettles(c, TRUE)
    \/ \E c \in Calls, l \in 1..StackInstalls : layerReturns(c, l)
    \/ \E c \in Calls, l \in 1..StackInstalls : responseParsed(c, l)

NextStack ==
    \/ StackConstruct
    \/ StackUpdate
    \/ StackFetch
    \/ StackXhrNew
    \/ StackXhrOpen
    \/ StackXhrSetHeader
    \/ StackXhrSetHandler
    \/ StackXhrSend
    \/ StackXhrResume
    \/ StackXhrProgress
    \/ StackXhrTask
    \/ StackFormNew
    \/ StackFormEvent
    \/ StackFormSubmit
    \/ StackFormResume
    \/ StackFormFetched
    \/ StackFormTextRead
    \/ StackFetchSteps

SpecStack == Init /\ [][NextStack]_vars

(***************************************************************************)
(* The registry of one interceptor: middlewares are added, with an id or   *)
(* without, removed and listed, and then the page makes a fetch call.      *)
(***************************************************************************)
GivenIds == {"a", Omitted}
RemovedIds == {"a", "req_1", "resp_1", "zz"}

RegistryInstall == installSeq < 1 /\ Construct(1, NoGiven)

RegistryAddRequest ==
    \E fn \in {"ok", "notAFunction"}, id \in GivenIds :
        /\ calls = <<>>
        /\ \/ Len(requestMiddlewares[1]) < MaxMiddlewares
           \/ HasId(requestMiddlewares[1], id)
        /\ addRequestMiddleware(1, fn, id)

RegistryAddResponse ==
    \E fn \in {"ok", "notAFunction"}, id \in GivenIds :
        /\ calls = <<>>
        /\ \/ Len(responseMiddlewares[1]) < MaxMiddlewares
           \/ HasId(responseMiddlewares[1], id)
        /\ addResponseMiddleware(1, fn, id)

RegistryRemoveRequest ==
    \E id \in RemovedIds : calls = <<>> /\ removeRequestMiddleware(1, id)

RegistryRemoveResponse ==
    \E id \in RemovedIds : calls = <<>> /\ removeResponseMiddleware(1, id)

RegistryList == calls = <<>> /\ getMiddlewareIds(1)

RegistryFetch ==
    \E a \in FetchInputs : created[1] /\ calls = <<>> /\ fetchCall(a)

RegistryFetchSteps ==
    \/ \E c \in Calls, j \in 1..MaxMiddlewares : requestMiddlewareSettles(c, 1, j)
    \/ \E c \in Calls : fetchResume(c)
    \/ \E c \in Calls : nativeSettles(c, TRUE)
    \/ \E c \in Calls : layerReturns(c, 1)
    \/ \E c \in Calls : responseParsed(c, 1)
    \/ \E c \in Calls : responseMiddlewareSettles(c, 1)

NextRegistry ==
    \/ RegistryInstall
    \/ RegistryAddRequest
    \/ RegistryAddResponse
    \/ RegistryRemoveRequest
    \/ RegistryRemoveResponse
    \/ RegistryList
    \/ RegistryFetch
    \/ RegistryFetchSteps

SpecRegistry == Init /\ [][NextRegistry]_vars

(***************************************************************************)
(* Properties of a fetch call under SpecFetch.                             *)
(***************************************************************************)
\* The arguments the native fetch is called with when the function f is
\* called with a and no middleware is registered anywhere.
RECURSIVE PlainDispatch(_, _)
PlainDispatch(f, a) ==
    IF f.k = "bound" THEN PlainDispatch(f.target, a)
    ELSE IF IsWrapper(f)
    THEN LET layer == NewLayer(f, a, NoId)
         IN  PlainDispatch(layer.base, DispatchArg(layer))
    ELSE a

Layers(c) == 1..Len(calls[c].layers)

\* C2: an intercepted fetch call whose real call succeeded hands the caller
\* the very response the real call produced, and that response is the one
\* the call would have produced with no middleware registered, whatever the
\* registered middlewares did (resolved, rewrote the record, threw, rejected).
C2_CallerGetsTheRealResponse ==
    \A c \in Calls :
        (calls[c].st = "resolved" /\ calls[c].layers # <<>>) =>
            /\ calls[c].result = calls[c].response
            /\ calls[c].result.k = "response"
            /\ calls[c].response =
                  NativeResponse(PlainDispatch(calls[c].fn, calls[c].input), 200)

\* A call has resolved although one of its request middlewares threw or
\* rejected, and a response middleware has been called for it.
C2_Witness ==
    \E c \in Calls :
        /\ calls[c].st = "resolved"
        /\ calls[c].layers # <<>>
        /\ \E j \in 1..Len(calls[c].layers[1].mw) :
              calls[c].layers[1].mw[j].st \in {"threw", "rejected"}
        /\ calls[c].layers[1].task.called # <<>>

\* C3: when a request middleware throws or rejects, every other registered
\* request middleware is still called for that call, and the real call is
\* dispatched.
C3_OthersStillCalled ==
    \A c \in Calls : \A l \in Layers(c) :
        LET mw == calls[c].layers[l].mw
        IN  (\E j \in 1..Len(mw) : mw[j].st \in {"threw", "rejected"}) =>
                \A j \in 1..Len(mw) : mw[j].st # "notCalled"

\* C4: when a request middleware changes the url, method, headers or body
\* of the record it is given, the real call is made with the changed values.
C4_ChangesAreDispatched ==
    \A c \in Calls :
        (/\ calls[c].net # "none"
         /\ Len(calls[c].layers) = 1
         /\ \E j \in 1..Len(calls[c].layers[1].mw) :
               /\ calls[c].layers[1].mw[j].kind = "mutate"
               /\ calls[c].layers[1].mw[j].st # "notCalled")
        => LET rec == calls[c].layers[1].rec
               wire == WireRequest(calls[c].sent)
           IN  /\ wire.url = UrlAgainstLocation(rec.url)
               /\ wire.method = rec.method
               /\ wire.headers = rec.headers
               /\ wire.body = rec.body

\* C5: the wrapped function is called only after every request middleware
\* called for that call has settled.
C5_DispatchAfterAllSettled ==
    \A c \in Calls : \A l \in Layers(c) :
        calls[c].layers[l].st # "middlewares" =>
            \A j \in 1..Len(calls[c].layers[l].mw) :
                calls[c].layers[l].mw[j].st # "pending"

C28_RecordUrlIsAbsolute ==
    /\ \A c \in Calls : \A l \in Layers(c) :
          LET layer == calls[c].layers[l]
              given == IF l = 1 THEN calls[c].input.url
                       ELSE calls[c].layers[l - 1].next.url
          IN  \/ \E j \in 1..Len(layer.mw) : layer.mw[j].kind = "mutate"
              \/ /\ layer.rec.url.abs
                 /\ layer.rec.url = UrlAgainstLocation(given)
    /\ \A x \in Xhrs : \A i \in 1..Len(xhrs[x].heap) : xhrs[x].heap[i].url.abs
    /\ \A fi \in Forms : \A r \in 1..Len(forms[fi].replays) :
          forms[fi].replays[r].rec.url.abs

\* C30: the response run of a wrapper is given a clone of the response,
\* taken in the step in which the wrapper returns the response, and the
\* body of the response the caller is handed is never read by a response
\* run: it is unread when the caller gets it and stays so whatever the
\* response middlewares do.
C30_CallerBodyIsNeverRead ==
    \A c \in Calls :
        /\ calls[c].response \notin calls[c].read
        /\ calls[c].st = "resolved" => calls[c].result \notin calls[c].read
        /\ \A l \in Layers(c) :
              calls[c].layers[l].task.st # "none" =>
                  /\ calls[c].layers[l].task.response = Clone(calls[c].response)
                  /\ calls[c].layers[l].st = "resolved"

\* The caller holds the response and the response run of the wrapper has
\* read its clone and called a response middleware.
C30_Witness ==
    \E c \in Calls :
        /\ calls[c].st = "resolved"
        /\ calls[c].layers # <<>>
        /\ calls[c].layers[1].task.called # <<>>
        /\ Clone(calls[c].response) \in calls[c].read

\* The response run of layer l of call c.
TaskOf(c, l) == calls[c].layers[l].task

\* The response registry that run iterates.
RegistryOf(c, l) == responseMiddlewares[calls[c].layers[l].self]

\* A step in which the response run of a wrapper invokes middlewares: it was
\* parsing or awaiting one middleware, it invokes the entries that follow in
\* the order of the registry, and it stops either awaiting the last one
\* invoked or at the end of the registry; a function that throws is passed.
ResponseRunMovesOn(c, l) ==
    LET old == TaskOf(c, l)
        new == calls'[c].layers[l].task
        reg == RegistryOf(c, l)
    IN  new.idx > old.idx =>
            /\ old.st \in {"parse", "awaiting"}
            /\ new.called = SubSeq(Keys(reg), 1, new.idx)
            /\ new.response = old.response
            /\ \A j \in (old.idx + 1)..(new.idx - 1) : reg[j].kind = "throw"
            /\ \/ new.st = "awaiting" /\ new.cur = reg[new.idx].kind
                                      /\ new.cur # "throw"
               \/ new.st = "done" /\ new.idx = Len(reg)
                                  /\ reg[new.idx].kind = "throw"

\* A response run that stands has one middleware pending, the last invoked;
\* one that ended after a settlement had nothing left to invoke.
ResponseRunOneAtATime ==
    \A c \in Calls : \A l \in Layers(c) :
        LET task == TaskOf(c, l)
        IN  /\ task.idx = Len(task.called)
            /\ task.st = "awaiting" => task.idx >= 1
            /\ task.st \in {"none", "parse"} => task.called = <<>>

\* C33: for one call the response middlewares are invoked one at a time in
\* the order of registration, each after the one before has settled, and one
\* that throws or rejects does not keep the following ones from being invoked
\* with the same response record.
C33_ResponseMiddlewaresRunInOrder ==
    /\ []ResponseRunOneAtATime
    /\ [][\A c \in Calls : \A l \in Layers(c) :
             (c \in DOMAIN calls' /\ l \in 1..Len(calls'[c].layers)) =>
                 ResponseRunMovesOn(c, l)]_vars

\* A run has invoked a second middleware after the first threw or rejected.
C33_Witness ==
    \E c \in Calls : \E l \in Layers(c) :
        /\ Len(TaskOf(c, l).called) = 2
        /\ Len(RegistryOf(c, l)) = 2
        /\ RegistryOf(c, l)[1].kind \in {"throw", "reject"}
        /\ TaskOf(c, l).called = Keys(RegistryOf(c, l))

\* C31: the record parseResponse makes for the response run of a wrapper
\* has the id of the request record of that wrapper's call.
C31_ResponseRecordHasTheRequestId ==
    \A c \in Calls : \A l \in Layers(c) :
        LET layer == calls[c].layers[l]
        IN  layer.task.st \notin {"none", "parse"} =>
                layer.task.parsedId = layer.task.rec.id

\* C32: in every strategy the record the request middlewares of a wrapper
\* are given has an id made for that call, and no two records share one.
C32_RequestRecordHasAFreshId ==
    /\ \A c \in Calls : \A l \in Layers(c) :
          calls[c].layers[l].rec.id # NoId
    /\ \A c, d \in Calls : \A l \in Layers(c), m \in Layers(d) :
          (calls[c].layers[l].rec.id = calls[d].layers[m].rec.id) =>
              (c = d /\ l = m)

\* C17: when the real fetch call fails, the caller of the intercepted call
\* is never handed a response: its promise rejects with the very error of
\* the real call, and no response middleware run is started for the call.
C17_FailurePropagates ==
    \A c \in Calls :
        (calls[c].net = "failed" /\ calls[c].layers # <<>>) =>
            /\ calls[c].st \in {"pending", "rejected"}
            /\ calls[c].st = "rejected" =>
                  /\ calls[c].result = NativeError(calls[c].sent)
                  /\ calls[c].result = calls[c].response
            /\ \A l \in Layers(c) :
                  /\ calls[c].layers[l].task.st = "none"
                  /\ calls[c].layers[l].st # "resolved"

\* The real call of an intercepted fetch failed while response middlewares
\* were registered, and the caller's promise has rejected.
C17_Witness ==
    \E c \in Calls :
        /\ calls[c].net = "failed"
        /\ calls[c].layers # <<>>
        /\ calls[c].st = "rejected"
        /\ Len(responseMiddlewares[calls[c].layers[1].self]) > 0

\* An assignment to window.fetch while the property is the accessor of the
\* getter/setter strategy: the accessor stays on window and on the
\* prototype, a function becomes the value of currentFetch and anything
\* else leaves currentFetch as it was.
AssignKeepsAccessor ==
    (/\ Len(log') = Len(log) + 1
     /\ log'[Len(log')].op = "assign"
     /\ page.fetch.kind = "accessor") =>
        LET v == log'[Len(log')].value
            d == page.fetch
        IN  /\ page'.fetch = d
            /\ page'.protoFetch = page.protoFetch
            /\ \A n \in DOMAIN page.cells :
                  page'.cells[n] = IF n = d.cell /\ IsFunction(v) THEN v
                                   ELSE page.cells[n]

\* A call through window.fetch made after such an assignment of a function,
\* and before anything else changed the page: it entered the wrapper of the
\* interceptor, which called every registered request middleware; the real
\* call was made by the assigned function, and a response it resolved with
\* was given to the response middlewares.
CallAfterAssign(c) ==
    LET call == calls[c]
        e == log[call.at]
        self == e.pre.fetch.self
        layer == call.layers[1]
    IN  /\ call.fn = createInterceptedFetch(self, e.value)
        /\ call.layers # <<>>
        /\ layer.kind = "getterWrap" /\ layer.self = self
        /\ layer.base = e.value
        /\ Len(layer.mw) = Len(requestMiddlewares[self])
        /\ call.net # "none" => call.leaf = e.value
        /\ (layer.st = "resolved" /\ Len(responseMiddlewares[self]) > 0) =>
              layer.task.st # "none"

IsOverride(e) ==
    /\ e.op = "assign"
    /\ e.pre.fetch.kind = "accessor"
    /\ IsFunction(e.value)

CallsAfterAssign ==
    \A c \in Calls :
        (calls[c].at > 0 /\ IsOverride(log[calls[c].at])) => CallAfterAssign(c)

\* C18: under the getter/setter strategy an assignment to window.fetch
\* leaves the accessor in place; every later call through window.fetch runs
\* the request and response pipelines of the interceptor and ends in the
\* function assigned; assigning something that is no function changes
\* nothing.
C18_OverrideKeepsTheAccessor ==
    /\ [][AssignKeepsAccessor]_vars
    /\ []CallsAfterAssign

\* A call made right after the page assigned a function of its own, with a
\* request and a response middleware registered: the assigned function made
\* the real call and the response run has started.
C18_Witness ==
    \E c \in Calls :
        /\ calls[c].at > 0
        /\ IsOverride(log[calls[c].at])
        /\ calls[c].leaf = PageFetch
        /\ calls[c].layers[1].mw # <<>>
        /\ calls[c].layers[1].task.st # "none"
        /\ \E i \in Assigns : ~IsFunction(log[i].value)

(***************************************************************************)
(* XMLHttpRequest under up to two installations, with the middlewares of   *)
(* interceptor 1 registered before anything is sent.  An object may be     *)
(* opened before an installation, and then sent through wrappers that hold *)
(* no requestInfo for it.                                                  *)
(***************************************************************************)
MaxXhrSends == 2

NothingSent == \A x \in Xhrs : xhrs[x].asked = <<>>

XhrInstall ==
    \E i \in Interceptors :
        NothingSent /\ installSeq < StackInstalls /\ Construct(i, NoGiven)

XhrAddRequest ==
    \E fn \in RequestKinds :
        /\ created[1] /\ NothingSent
        /\ Len(requestMiddlewares[1]) < MaxMiddlewares
        /\ addRequestMiddleware(1, fn,
              MiddlewareIds[Len(requestMiddlewares[1]) + 1])

XhrAddResponse ==
    /\ created[1] /\ NothingSent
    /\ Len(responseMiddlewares[1]) < 1
    /\ addResponseMiddleware(1, "ok", "a")

XhrCreate == xhrs = <<>> /\ xhrNew

XhrOpen ==
    \E x \in Xhrs, i \in XhrInputs :
        xhrs[x].native = <<>> /\ xhrOpen(x, i[1], i[2])

\* The page sends again only once the sends before have reached the wire.
XhrSend ==
    \E x \in Xhrs, data \in {"none", "payload"} :
        /\ Len(xhrs[x].asked) < MaxXhrSends
        /\ \A l \in 1..Len(xhrs[x].sends) : xhrs[x].sends[l].st = "sent"
        /\ xhrSend(x, data)

XhrSettles ==
    \E x \in Xhrs, l \in 1..(MaxXhrSends * StackInstalls),
       j \in 1..MaxMiddlewares : xhrMiddlewareSettles(x, l, j)

XhrResume ==
    \E x \in Xhrs, l \in 1..(MaxXhrSends * StackInstalls) : xhrResume(x, l)

XhrProgress == \E x \in Xhrs : xhrProgress(x)

XhrTask ==
    \E x \in Xhrs, t \in 1..(MaxXhrSends * StackInstalls) : xhrTaskStep(x, t)

NextXhr ==
    \/ XhrInstall
    \/ XhrAddRequest
    \/ XhrAddResponse
    \/ XhrCreate
    \/ XhrOpen
    \/ XhrSend
    \/ XhrSettles
    \/ XhrResume
    \/ XhrProgress
    \/ XhrTask

SpecXhr == Init /\ [][NextXhr]_vars

(***************************************************************************)
(* The record of an XMLHttpRequest call: one installation, one request     *)
(* middleware that only looks, and an object the page opens, sets headers  *)
(* on, sends and opens again.                                              *)
(***************************************************************************)
MaxXhrOpens == 2
MaxHeaderCalls == 2

HeaderInputs ==
    { <<"X-Test", "v">>, <<"X-Test", "w">>, <<"X-Test", "">>, <<"X-Other", "o">> }

CallsOf(native, op) == Len(SelectSeq(native, LAMBDA c : c.op = op))

RecordInstall == installSeq < 1 /\ Construct(1, NoGiven)

RecordAddRequest ==
    /\ created[1] /\ NothingSent
    /\ requestMiddlewares[1] = <<>>
    /\ addRequestMiddleware(1, "ok", "a")

RecordOpen ==
    \E x \in Xhrs, i \in XhrInputs :
        /\ CallsOf(xhrs[x].native, "open") < MaxXhrOpens
        /\ xhrOpen(x, i[1], i[2])

RecordSetHeader ==
    \E x \in Xhrs, h \in HeaderInputs :
        /\ xhrs[x].readyState = 1
        /\ xhrs[x].config.body = "unsent"
        /\ CallsOf(xhrs[x].native, "setRequestHeader") < MaxHeaderCalls
        /\ xhrSetRequestHeader(x, h[1], h[2])

RecordSend ==
    \E x \in Xhrs, data \in {"none", "payload"} :
        /\ xhrs[x].readyState = 1
        /\ xhrs[x].config.body = "unsent"
        /\ xhrSend(x, data)

NextRecord ==
    \/ RecordInstall
    \/ RecordAddRequest
    \/ XhrCreate
    \/ RecordOpen
    \/ RecordSetHeader
    \/ RecordSend
    \/ XhrSettles
    \/ XhrResume

SpecRecord == Init /\ [][NextRecord]_vars

(***************************************************************************)
(* The readystatechange handler: one or two installations, a response      *)
(* middleware, and an object the page may give a handler before or after   *)
(* send, and may open and send again once a call is complete.              *)
(***************************************************************************)
HandlerInstall ==
    \E i \in Interceptors :
        NothingSent /\ installSeq < StackInstalls /\ Construct(i, NoGiven)

HandlerAddResponse ==
    \E i \in Interceptors :
        /\ created[i] /\ NothingSent
        /\ responseMiddlewares[i] = <<>>
        /\ addResponseMiddleware(i, "ok", "a")

HandlerOpen ==
    \E x \in Xhrs, i \in XhrInputs :
        /\ xhrs[x].readyState \in {0, 4}
        /\ CallsOf(xhrs[x].native, "open") < MaxXhrOpens
        /\ xhrOpen(x, i[1], i[2])

HandlerSet ==
    \E x \in Xhrs : xhrs[x].handler # PageHandler /\ xhrSetHandler(x)

NextHandler ==
    \/ HandlerInstall
    \/ HandlerAddResponse
    \/ XhrCreate
    \/ HandlerOpen
    \/ HandlerSet
    \/ RecordSend
    \/ XhrResume
    \/ XhrProgress
    \/ XhrTask

SpecHandler == Init /\ [][NextHandler]_vars

(***************************************************************************)
(* Calls in flight at once: one installation with the default options and  *)
(* a response middleware, a fetch call of the page and two XMLHttpRequest  *)
(* objects, each of which the page may open and send again once its call   *)
(* is complete.                                                            *)
(***************************************************************************)
MaxXhrObjects == 2

ConcurrentInstall ==
    /\ installSeq < 1 /\ calls = <<>> /\ xhrs = <<>>
    /\ Construct(1, NoGiven)

ConcurrentAddResponse ==
    /\ created[1] /\ calls = <<>> /\ xhrs = <<>>
    /\ responseMiddlewares[1] = <<>>
    /\ addResponseMiddleware(1, "ok", "a")

\* The calls start once the installation has its response middleware.
ConcurrentCreate ==
    /\ responseMiddlewares[1] # <<>>
    /\ Len(xhrs) < MaxXhrObjects
    /\ xhrNew

\* The n-th call of an object.
ConcurrentInput(n) ==
    IF n = 1 THEN <<"GET", Url(FALSE, "", FALSE, <<"data">>, "")>>
    ELSE <<"POST", Url(TRUE, "https://api.example", TRUE, <<"y">>, "")>>

ConcurrentOpen ==
    \E x \in Xhrs :
        LET i == ConcurrentInput(CallsOf(xhrs[x].native, "open") + 1)
        IN  /\ xhrs[x].readyState \in {0, 4}
            /\ CallsOf(xhrs[x].native, "open") < MaxXhrOpens
            /\ xhrOpen(x, i[1], i[2])

ConcurrentSend ==
    \E x \in Xhrs :
        /\ xhrs[x].readyState = 1
        /\ xhrs[x].config.body = "unsent"
        /\ xhrSend(x, "none")

ConcurrentFetch ==
    /\ responseMiddlewares[1] # <<>>
    /\ Len(calls) < MaxFetchCalls
    /\ fetchCall(FetchArg("string", Url(FALSE, "", TRUE, <<"api", "x">>, ""),
                          "omitted", {}, "none"))

NextConcurrent ==
    \/ ConcurrentInstall
    \/ ConcurrentAddResponse
    \/ ConcurrentCreate
    \/ ConcurrentOpen
    \/ ConcurrentSend
    \/ XhrResume
    \/ XhrProgress
    \/ XhrTask
    \/ ConcurrentFetch
    \/ FetchResume
    \/ FetchNative
    \/ FetchReturn
    \/ FetchParsed
    \/ FetchResponseSettles

SpecConcurrent == Init /\ [][NextConcurrent]_vars

(***************************************************************************)
(* cleanup() with calls in flight: one installation with any of the three  *)
(* strategies, a request middleware and two response middlewares, a fetch  *)
(* call and a call of an XMLHttpRequest object, and one cleanup() at any   *)
(* moment.  Nothing is registered after the calls have started.            *)
(***************************************************************************)
Cleaned == \E j \in 1..Len(log) : log[j].op = "cleanup"

NoCallYet == calls = <<>> /\ xhrs = <<>> /\ forms = <<>>

CleanupInstall ==
    \E g \in StrategyOptions : NoCallYet /\ installSeq < 1 /\ Construct(1, g)

CleanupAddRequest ==
    /\ created[1] /\ NoCallYet /\ ~Cleaned
    /\ requestMiddlewares[1] = <<>>
    /\ addRequestMiddleware(1, "ok", "a")

CleanupAddResponse ==
    /\ created[1] /\ NoCallYet /\ ~Cleaned
    /\ Len(responseMiddlewares[1]) < MaxMiddlewares
    /\ addResponseMiddleware(1, "ok",
          MiddlewareIds[Len(responseMiddlewares[1]) + 1])

\* The calls are made with the middlewares registered, or after cleanup().
CleanupReady ==
    \/ Cleaned
    \/ /\ requestMiddlewares[1] # <<>>
       /\ Len(responseMiddlewares[1]) = MaxMiddlewares

CleanupFetch ==
    /\ CleanupReady
    /\ Len(calls) < MaxFetchCalls
    /\ fetchCall(FetchArg("string", Url(FALSE, "", TRUE, <<"api", "x">>, ""),
                          "omitted", {}, "none"))

CleanupCreate == CleanupReady /\ xhrs = <<>> /\ xhrNew

CleanupOpen ==
    \E x \in Xhrs :
        /\ xhrs[x].native = <<>>
        /\ xhrOpen(x, "GET", Url(FALSE, "", FALSE, <<"data">>, ""))

CleanupRun == ~Cleaned /\ cleanup(1)

NextCleanup ==
    \/ CleanupInstall
    \/ CleanupAddRequest
    \/ CleanupAddResponse
    \/ CleanupRun
    \/ CleanupFetch
    \/ FetchRequestSettles
    \/ FetchResume
    \/ FetchNative
    \/ FetchReturn
    \/ FetchParsed
    \/ FetchResponseSettles
    \/ CleanupCreate
    \/ CleanupOpen
    \/ ConcurrentSend
    \/ XhrSettles
    \/ XhrResume
    \/ XhrProgress
    \/ XhrTask

SpecCleanup == Init /\ [][NextCleanup]_vars

\* The promise of a middleware that settles does settle, and the
\* continuation of a settled promise runs.
SpecCleanupFair ==
    /\ SpecCleanup
    /\ WF_vars(FetchRequestSettles)
    /\ WF_vars(FetchResume)
    /\ WF_vars(XhrSettles)
    /\ WF_vars(XhrResume)

\* The middleware invocations begun so far: of the request middlewares by
\* the wrappers of fetch and of send, and of the response middlewares by
\* the response runs of both.
InvocationsBegun ==
    {<<"request", c, l, j>> : <<c, l, j>> \in
        {p \in Calls \X (1..MaxInstalls) \X (1..MaxMiddlewares) :
            /\ p[2] \in Layers(p[1])
            /\ p[3] \in 1..Len(calls[p[1]].layers[p[2]].mw)
            /\ calls[p[1]].layers[p[2]].mw[p[3]].st # "notCalled"}}
    \cup
    {<<"response", c, l, j>> : <<c, l, j>> \in
        {p \in Calls \X (1..MaxInstalls) \X (1..MaxMiddlewares) :
            /\ p[2] \in Layers(p[1])
            /\ p[3] \in 1..Len(calls[p[1]].layers[p[2]].task.called)}}
    \cup
    {<<"xhrRequest", x, l, j>> : <<x, l, j>> \in
        {p \in Xhrs \X (1..MaxXhrSends) \X (1..MaxMiddlewares) :
            /\ p[2] \in 1..Len(xhrs[p[1]].sends)
            /\ p[3] \in 1..Len(xhrs[p[1]].sends[p[2]].mw)
            /\ xhrs[p[1]].sends[p[2]].mw[p[3]].st # "notCalled"}}
    \cup
    {<<"xhrResponse", x, t, j>> : <<x, t, j>> \in
        {p \in Xhrs \X (1..MaxXhrSends) \X (1..MaxMiddlewares) :
            /\ p[2] \in 1..Len(xhrs[p[1]].tasks)
            /\ p[3] \in 1..Len(xhrs[p[1]].tasks[p[2]].called)}}

\* A wrapper of fetch, or of send, stands behind its request middlewares.
FetchDeferred ==
    /\ calls # <<>> /\ calls[1].layers # <<>>
    /\ calls[1].layers[1].st = "middlewares"

XhrDeferred ==
    /\ xhrs # <<>> /\ xhrs[1].sends # <<>>
    /\ xhrs[1].sends[1].st = "middlewares"

\* The real call has been made.
FetchDispatched == calls # <<>> /\ calls[1].net # "none"

XhrDispatched ==
    /\ xhrs # <<>>
    /\ \E j \in 1..Len(xhrs[1].native) : xhrs[1].native[j].op = "send"

\* C39: once cleanup() has returned both registries are empty and no
\* middleware invocation begins any more, also for the calls that were in
\* flight when it ran; a real call that stood behind its request middlewares
\* is still made.
C39_NothingInvokedAfterCleanup ==
    /\ [](Cleaned => (requestMiddlewares[1] = <<>>
                        /\ responseMiddlewares[1] = <<>>))
    /\ [][Cleaned => InvocationsBegun' = InvocationsBegun]_vars
    /\ (Cleaned /\ FetchDeferred) ~> FetchDispatched
    /\ (Cleaned /\ XhrDeferred) ~> XhrDispatched

\* cleanup() ran while a response run of the fetch call stood at its first
\* middleware and the send of the object stood behind its request
\* middleware; the run is over with the second middleware not invoked, and
\* the send has been made.
C39_Witness ==
    /\ Cleaned
    /\ calls # <<>> /\ calls[1].layers # <<>>
    /\ calls[1].layers[1].task.st = "done"
    /\ calls[1].layers[1].task.called = <<"a">>
    /\ xhrs # <<>> /\ xhrs[1].sends # <<>>
    /\ log[Len(log)].op = "cleanup"
    /\ XhrDispatched
    /\ xhrs[1].tasks # <<>>
    /\ xhrs[1].tasks[1].st = "done" /\ xhrs[1].tasks[1].called = <<>>

(***************************************************************************)
(* Form submissions: one installation in delayed or immediate mode, at     *)
(* most one middleware of each phase, and one form, submitted once by the  *)
(* user or by form.submit().                                               *)
(***************************************************************************)
FormOptions ==
    { [delayFormSubmitForFetch |-> TRUE], [delayFormSubmitForFetch |-> FALSE] }

ReplayInputs ==
    { NewForm("GET", Url(TRUE, LocationOrigin, TRUE, <<"search">>, ""),
              <<Field(<<"q">>, <<"a", " ", "b">>), Field(<<"p">>, <<"1">>)>>),
      NewForm("GET", Url(TRUE, LocationOrigin, TRUE, <<"search">>, "lang=en"),
              <<Field(<<"q">>, <<"a", "&", "b">>), Field(<<"p">>, <<"1">>)>>),
      NewForm("POST", Url(TRUE, LocationOrigin, TRUE, <<"login">>, "next=2"),
              <<Field(<<"u">>, <<"x">>)>>) }

FormInstall ==
    \E g \in FormOptions : forms = <<>> /\ installSeq < 1 /\ Construct(1, g)

FormAddRequest ==
    \E fn \in {"ok", "reject", "throw", "hang"} :
        /\ created[1] /\ forms = <<>>
        /\ requestMiddlewares[1] = <<>>
        /\ addRequestMiddleware(1, fn, "a")

FormAddResponse ==
    /\ created[1] /\ forms = <<>>
    /\ responseMiddlewares[1] = <<>>
    /\ addResponseMiddleware(1, "ok", "a")

FormNew ==
    \E f \in ReplayInputs :
        forms = <<>> /\ formNew(f.method, f.action, f.fields)

FormEvent == \E fi \in Forms : forms[fi].via = "none" /\ formSubmitEvent(fi)

FormSubmit == \E fi \in Forms : forms[fi].via = "none" /\ formSubmit(fi)

FormSettles == \E fi \in Forms : formMiddlewareSettles(fi, 1, 1)

FormResume == \E fi \in Forms : formResume(fi, 1)

FormNative == \E c \in Calls, ok \in BOOLEAN : nativeSettles(c, ok)

FormFetched == \E fi \in Forms : formFetched(fi, 1)

FormTextRead == \E fi \in Forms : formTextRead(fi, 1)

FormTask == \E fi \in Forms : formTaskStep(fi, 1)

NextForm ==
    \/ FormInstall
    \/ FormAddRequest
    \/ FormAddResponse
    \/ FormNew
    \/ FormEvent
    \/ FormSubmit
    \/ FormSettles
    \/ FormResume
    \/ FormNative
    \/ FormFetched
    \/ FormTextRead
    \/ FormTask

SpecForm == Init /\ [][NextForm]_vars

(***************************************************************************)
(* The method of the request record: one installation with any of the      *)
(* three strategies and a request middleware, and one call, made with      *)
(* fetch, with an XMLHttpRequest object or by submitting a form, with the  *)
(* method written in either case or left out.                              *)
(***************************************************************************)
MethodInputs == {"omitted", "get", "post", "GET", "POST"}

\* String.prototype.toUpperCase(), on the methods the page uses
ToUpperCase(m) ==
    CASE m = "get" -> "GET"
      [] m = "post" -> "POST"
      [] OTHER -> m

\* (form.method || "GET").toUpperCase()
FormMethod(m) == ToUpperCase(IF m = "" THEN "GET" ELSE m)

MethodInstall ==
    \E g \in StrategyOptions : NoCallYet /\ installSeq < 1 /\ Construct(1, g)

MethodAddRequest ==
    /\ created[1] /\ NoCallYet
    /\ requestMiddlewares[1] = <<>>
    /\ addRequestMiddleware(1, "ok", "a")

MethodFetch ==
    \E m \in MethodInputs :
        /\ NoCallYet /\ requestMiddlewares[1] # <<>>
        /\ fetchCall(FetchArg("string", Url(FALSE, "", TRUE, <<"api", "x">>, ""),
                              m, {}, "none"))

MethodCreate == NoCallYet /\ requestMiddlewares[1] # <<>> /\ xhrNew

MethodOpen ==
    \E x \in Xhrs, m \in MethodInputs :
        /\ xhrs[x].native = <<>>
        /\ xhrOpen(x, m, Url(FALSE, "", FALSE, <<"data">>, ""))

\* The method property of a form is "get" or "post".
MethodForm ==
    \E m \in {"get", "post"} :
        /\ NoCallYet /\ requestMiddlewares[1] # <<>>
        /\ formNew(FormMethod(m),
                   Url(TRUE, LocationOrigin, TRUE, <<"search">>, ""),
                   <<Field(<<"q">>, <<"1">>)>>)

NextMethod ==
    \/ MethodInstall
    \/ MethodAddRequest
    \/ MethodFetch
    \/ FetchRequestSettles
    \/ FetchResume
    \/ FetchNative
    \/ FetchReturn
    \/ MethodCreate
    \/ MethodOpen
    \/ ConcurrentSend
    \/ XhrSettles
    \/ XhrResume
    \/ MethodForm
    \/ FormEvent
    \/ FormSubmit
    \/ FormSettles
    \/ FormResume
    \/ FormFetched

SpecMethod == Init /\ [][NextMethod]_vars

(***************************************************************************)
(* Properties of the request record's method under SpecMethod.             *)
(***************************************************************************)
UpperVerbs == {"GET", "POST"}

\* The records the request middlewares were given, each with the method the
\* caller gave: of the wrappers of fetch, of the sends of XMLHttpRequest
\* objects and of the form replays.
RequestRecordsSeen ==
    {[rec |-> calls[c].layers[l].rec, given |-> calls[c].input.method] :
        <<c, l>> \in {p \in Calls \X (1..MaxInstalls) : p[2] \in Layers(p[1])}}
    \cup
    {[rec |-> xhrs[x].heap[xhrs[x].sends[l].info],
      given |-> xhrs[x].sends[l].config.method] :
        <<x, l>> \in {p \in Xhrs \X (1..MaxXhrSends) :
                         p[2] \in 1..Len(xhrs[p[1]].sends)}}
    \cup
    {[rec |-> forms[fi].replays[r].rec, given |-> forms[fi].method] :
        <<fi, r>> \in {p \in Forms \X {1} :
                          p[2] \in 1..Len(forms[p[1]].replays)}}

\* C35: the method of every request record the request middlewares are given
\* is an upper-case verb, and GET when the caller gave no method, with each
\* fetch strategy, with XMLHttpRequest and with form submissions.
C35_MethodIsAnUppercaseVerb ==
    \A s \in RequestRecordsSeen :
        /\ s.rec.method \in UpperVerbs
        /\ s.given = "omitted" => s.rec.method = "GET"

(***************************************************************************)
(* Properties of form submissions under SpecForm.                          *)
(***************************************************************************)
\* A URL as a string.
RECURSIVE PathOf(_)
PathOf(segs) ==
    IF segs = <<>> THEN "" ELSE "/" \o Head(segs) \o PathOf(Tail(segs))

Href(u) ==
    u.origin \o PathOf(u.segs) \o (IF u.query = "" THEN "" ELSE "?" \o u.query)

\* The replays of form fi that have called self.originalFetch.
Replayed(fi) ==
    {r \in 1..Len(forms[fi].replays) : forms[fi].replays[r].call # 0}

\* C24: the replay of a GET form calls fetch with the action followed by
\* "?" and the encoded fields, in the order of the form, when the action has
\* no query string and by "&" and the encoded fields when it has one, and
\* with no body.
C24_GetReplayUrl ==
    \A fi \in Forms : \A r \in Replayed(fi) :
        LET form == forms[fi]
            input == calls[form.replays[r].call].input
            separator == IF form.action.query = "" THEN "?" ELSE "&"
        IN  form.method = "GET" =>
                /\ Href(input.url) =
                      Href(form.action) \o separator \o Params(form.fields)
                /\ input.body = "none"
                /\ input.method = "GET"

\* The replay of a GET form whose action has a query string and whose
\* fields need encoding has called fetch.
C24_Witness ==
    \E fi \in Forms : \E r \in Replayed(fi) :
        /\ forms[fi].method = "GET"
        /\ forms[fi].action.query # ""
        /\ Href(calls[forms[fi].replays[r].call].input.url) =
              "https://example.com/search?lang=en&q=a%26b&p=1"

\* The form was submitted by the user while interceptor 1 was installed in
\* the given mode.
SubmittedByEvent(fi, delay) ==
    /\ forms[fi].via = "event"
    /\ created[1]
    /\ options[1].delayFormSubmitForFetch = delay

\* The fetch call of a replay has resolved or failed.
ReplayCallSettled(fi, r) ==
    /\ r \in Replayed(fi)
    /\ calls[forms[fi].replays[r].call].st \in {"resolved", "rejected"}

\* C25: in delayed mode a form submitted by the user is not submitted
\* natively while the replay is running, and is submitted natively exactly
\* once when the replay is over, whether its fetch call resolved or failed.
C25_DelayedSubmitsOnceAfterReplay ==
    \A fi \in Forms :
        SubmittedByEvent(fi, TRUE) =>
            /\ Len(forms[fi].replays) = 1
            /\ forms[fi].replays[1].st # "done" => forms[fi].native = 0
            /\ forms[fi].replays[1].st = "done" =>
                  /\ forms[fi].native = 1
                  /\ ReplayCallSettled(fi, 1)

\* A delayed submission whose replay failed has been submitted natively.
C25_Witness ==
    \E fi \in Forms :
        /\ SubmittedByEvent(fi, TRUE)
        /\ forms[fi].replays[1].st = "done"
        /\ calls[forms[fi].replays[1].call].st = "rejected"
        /\ forms[fi].native = 1

\* C26: in delayed mode a form submitted by form.submit() is not submitted
\* natively before the fetch call of the replay has resolved or failed.
C26_DelayedProgrammaticSubmitWaits ==
    \A fi \in Forms :
        (/\ forms[fi].via = "submit"
         /\ created[1]
         /\ options[1].delayFormSubmitForFetch
         /\ forms[fi].native > 0) => ReplayCallSettled(fi, 1)

\* C27: in immediate mode a form submitted by the user is submitted
\* natively at once and once only, whatever becomes of the replay: the
\* handler has nothing to call when the replay is over.
C27_ImmediateNeverWaits ==
    \A fi \in Forms :
        SubmittedByEvent(fi, FALSE) =>
            /\ forms[fi].native = 1
            /\ \A r \in 1..Len(forms[fi].replays) :
                  forms[fi].replays[r].after = NoFunction

\* An immediate submission is out while the replay waits for a request
\* middleware that never settles.
C27_Witness ==
    \E fi \in Forms :
        /\ SubmittedByEvent(fi, FALSE)
        /\ forms[fi].native = 1
        /\ Len(forms[fi].replays) = 1
        /\ forms[fi].replays[1].st = "middlewares"
        /\ forms[fi].replays[1].mw # <<>>
        /\ forms[fi].replays[1].mw[1].kind = "hang"

\* The runs of the request pipeline and of the response pipeline made for
\* form fi: by its replays and by the wrappers of fetch that the calls of
\* its replays went through.
FormRequestRuns(fi) ==
    {<<"replay", r, 0>> : r \in 1..Len(forms[fi].replays)}
    \cup
    {<<"fetch", r, l>> : <<r, l>> \in
        {p \in Replayed(fi) \X (1..MaxInstalls) :
            p[2] \in Layers(forms[fi].replays[p[1]].call)}}

FormResponseRuns(fi) ==
    {<<"replay", r, 0>> : r \in
        {q \in 1..Len(forms[fi].replays) :
            forms[fi].replays[q].task.st # "none"}}
    \cup
    {<<"fetch", r, l>> : <<r, l>> \in
        {p \in Replayed(fi) \X (1..MaxInstalls) :
            /\ p[2] \in Layers(forms[fi].replays[p[1]].call)
            /\ TaskOf(forms[fi].replays[p[1]].call, p[2]).st # "none"}}

\* C40: with fetch and form interception installed once, a form submitted
\* by the submit event or by form.submit() runs the request pipeline exactly
\* once and the response pipeline at most once: the replay calls the fetch
\* captured before the installation and passes through no wrapper of the
\* engine, and the native submission made after the replay in delayed mode
\* starts no second replay.
C40_OneReplayPerSubmission ==
    \A fi \in Forms :
        (created[1] /\ forms[fi].via # "none") =>
            /\ Cardinality(FormRequestRuns(fi)) = 1
            /\ Cardinality(FormResponseRuns(fi)) <= 1
            /\ forms[fi].native <= 1
            /\ \A r \in Replayed(fi) :
                  LET call == calls[forms[fi].replays[r].call]
                  IN  /\ call.fn = Bind(NativeFetch)
                      /\ call.layers = <<>>
                      /\ call.leaf = NativeFetch

\* A delayed submission by the submit event is over: the replay ran the
\* response middleware, and the form was then submitted natively.
C40_Witness ==
    \E fi \in Forms :
        /\ SubmittedByEvent(fi, TRUE)
        /\ forms[fi].native = 1
        /\ Len(forms[fi].replays) = 1
        /\ forms[fi].replays[1].task.called # <<>>
        /\ forms[fi].replays[1].mw # <<>>
        /\ calls[forms[fi].replays[1].call].layers = <<>>

(***************************************************************************)
(* parseResponse on the responses a page can hold: read or unread, of      *)
(* every kind of content, with a body that can or cannot be read.          *)
(***************************************************************************)
ParseInputs ==
    { Response(used, contentType, body, textFails, status) :
        used \in BOOLEAN,
        contentType \in {"", "text/html", "application/json; charset=utf-8",
                         "image/png"},
        body \in {"", "data"},
        textFails \in BOOLEAN,
        status \in {200, 404, 500} }

InitParse ==
    /\ Program
    /\ \E response \in ParseInputs :
          parsing = ParseRun(response, response, "given", 0, NotParsed)

NextParse ==
    \/ parseResponse
    \/ parseTextSettles

SpecParse == InitParse /\ [][NextParse]_vars

\* C29: parseResponse on a response whose body was read returns, in the
\* same turn, a record whose body is the placeholder, and it never reads the
\* body: the response is left as it was given.
C29_ConsumedBodyGivesPlaceholder ==
    (parsing.given.bodyUsed /\ parsing.st # "given") =>
        /\ parsing.st = "done"
        /\ parsing.out = Parsed(parsing.given, AlreadyConsumed)
        /\ parsing.reads = 0
        /\ parsing.response = parsing.given

\* parseResponse has returned for a textual response whose body was read.
C29_Witness ==
    /\ parsing.st = "done"
    /\ parsing.given.bodyUsed
    /\ IsTextual(parsing.given.contentType)
    /\ parsing.given.status = 404
    /\ parsing.out.body = AlreadyConsumed

\* What parseResponse returned for a response whose body it read.
BodyRead ==
    /\ parsing.st = "done"
    /\ ~parsing.given.bodyUsed
    /\ ~parsing.given.textFails

RECURSIVE NativeSends(_)
NativeSends(native) ==
    IF native = <<>> THEN <<>>
    ELSE IF Head(native).op \in {"send", "sendThrows"}
    THEN <<Head(native).a>> \o NativeSends(Tail(native))
    ELSE NativeSends(Tail(native))

\* C19: on an object no wrapper of open was ever called on, every send
\* calls the native send at once, once and with the caller's argument, and
\* neither a request middleware nor a response run is started for it.
C19_SendWithoutOpenGoesStraight ==
    \A x \in Xhrs :
        xhrs[x].map = {} =>
            /\ NativeSends(xhrs[x].native) = xhrs[x].asked
            /\ xhrs[x].sends = <<>>
            /\ xhrs[x].tasks = <<>>
            /\ xhrs[x].handler = NoHandler

\* An object opened before the installations was sent through two stacked
\* wrappers with a body, and the real call is under way.
C19_Witness ==
    \E x \in Xhrs :
        /\ xhrs[x].map = {}
        /\ page.send.k = "sendWrap" /\ page.send.originalSend.k = "sendWrap"
        /\ Len(requestMiddlewares[1]) > 0
        /\ xhrs[x].asked = <<"payload">>
        /\ xhrs[x].net = "pending"

\* C21: the record the request middlewares of a send are given has the
\* method given to the open before it, every header set since that open
\* with its last value and nothing else, and the body given to send.
C21_RecordIsWhatThePageConfigured ==
    \A x \in Xhrs : \A l \in 1..Len(xhrs[x].sends) :
        LET e == xhrs[x].sends[l]
            requestInfo == xhrs[x].heap[e.info]
        IN  /\ requestInfo.method = e.config.method
            /\ requestInfo.headers = e.config.headers
            /\ requestInfo.body = e.config.body

\* The page's handler has been called once for every event fired since the
\* page set it, in order and with the event itself.
HandlerHeardEveryEvent(x) ==
    Innermost(xhrs[x].handler) = PageHandler =>
        xhrs[x].seen = SubSeq(xhrs[x].fired, xhrs[x].since + 1,
                              Len(xhrs[x].fired))

\* A response run started at an event the page's handler was called for
\* was started after that call.
HandlerBeforeResponseRun(x) ==
    \A t \in 1..Len(xhrs[x].tasks) :
        LET task == xhrs[x].tasks[t]
        IN  (\E i \in 1..Len(xhrs[x].seen) : xhrs[x].seen[i].n = task.event) =>
                \E i \in 1..task.heard : xhrs[x].seen[i].n = task.event

\* C22: the page's onreadystatechange handler is called on every
\* readystatechange with the arguments of the event, and at each event
\* before a response run is started for the call.
C22_HandlerKeepsItsEvents ==
    \A x \in Xhrs : HandlerHeardEveryEvent(x) /\ HandlerBeforeResponseRun(x)

\* An intercepted call of an object whose handler the page set before send
\* is complete: the handler is wrapped and response runs have started.
C22_Witness ==
    \E x \in Xhrs :
        /\ xhrs[x].handler.k = "rcHandler"
        /\ Innermost(xhrs[x].handler) = PageHandler
        /\ xhrs[x].readyState = 4
        /\ xhrs[x].tasks # <<>>
        /\ Len(xhrs[x].seen) >= 3

\* The response runs started with the requestInfo of a wrapper's send.
RunsFor(x, l) ==
    {t \in 1..Len(xhrs[x].tasks) :
        /\ xhrs[x].tasks[t].info = xhrs[x].sends[l].info
        /\ xhrs[x].tasks[t].self = xhrs[x].sends[l].self}

\* C23: once the calls of an object are complete, each wrapper that took a
\* send has started processResponseMiddlewares exactly once with the
\* requestInfo of that send.
C23_OneResponseRunPerCall ==
    \A x \in Xhrs :
        (xhrs[x].readyState = 4 /\ xhrs[x].net = "done") =>
            \A l \in 1..Len(xhrs[x].sends) : Cardinality(RunsFor(x, l)) = 1

\* Another call than the one of object x is in flight: a call of another
\* object is on the wire, or the promise of a fetch call is pending.
OtherCallInFlight(x) ==
    \/ \E y \in Xhrs : y # x /\ xhrs[y].net = "pending"
    \/ \E c \in Calls : calls[c].st = "pending"

\* The response run of a wrapper of fetch has the request record of the
\* wrapper's call.
FetchRunHasItsRecord ==
    \A c \in Calls : \A l \in Layers(c) :
        TaskOf(c, l).st # "none" => TaskOf(c, l).rec = calls[c].layers[l].rec

\* The sends of an object that the engine took have a requestInfo each.
SendsHaveTheirOwnRecord ==
    \A x \in Xhrs : \A l, m \in 1..Len(xhrs[x].sends) :
        (xhrs[x].sends[l].info = xhrs[x].sends[m].info
           /\ xhrs[x].sends[l].n = xhrs[x].sends[m].n) => l = m

\* The response runs a step starts for object x have the requestInfo that
\* an installation's map holds for the object, the one of the call that is
\* complete.
XhrRunHasTheCallsRecord(x) ==
    \A t \in (Len(xhrs[x].tasks) + 1)..Len(xhrs'[x].tasks) :
        xhrs'[x].tasks[t].info \in {e.at : e \in xhrs'[x].map}

\* C34: with several calls in flight at once, each call has a request record
\* of its own and every response run is given the response together with
\* the request record of the same call, never the record of another call.
C34_EachCallItsOwnRecord ==
    /\ [](FetchRunHasItsRecord /\ SendsHaveTheirOwnRecord)
    /\ [][\A x \in Xhrs :
             (x \in DOMAIN xhrs' /\ OtherCallInFlight(x)) =>
                 XhrRunHasTheCallsRecord(x)]_vars

\* C20: by the time a wrapper of send has called the send it wraps, every
\* request middleware it called for that send has settled.
C20_SendAfterAllSettled ==
    \A x \in Xhrs : \A l \in 1..Len(xhrs[x].sends) :
        xhrs[x].sends[l].st = "sent" =>
            \A j \in 1..Len(xhrs[x].sends[l].mw) :
                xhrs[x].sends[l].mw[j].st # "pending"

(***************************************************************************)
(* Properties of installation and cleanup.                                 *)
(***************************************************************************)
\* The references a page's call surfaces hold: what window.fetch yields,
\* the three XMLHttpRequest prototype methods and the form submit method.
Surfaces(pg) ==
    [fetch |-> ReadFetch(pg), open |-> pg.open,
     setRequestHeader |-> pg.setRequestHeader, send |-> pg.send,
     submit |-> pg.submit]

AllSurfacesOn(o) ==
    ~o.disableFetch /\ ~o.disableXHR /\ ~o.disableFormIntercept

Strategy(o) ==
    IF o.useGetterForFetch THEN "getter"
    ELSE IF o.useProxyForFetch THEN "proxy" ELSE "direct"

IsInstall(e) == e.op \in {"install", "update"}

\* C1: with fetch, XHR and form interception enabled, whatever the fetch
\* strategy, an install followed at once by cleanup() of the same
\* interceptor leaves the fetch slot, the three XHR prototype methods and
\* the form submit method holding the references they held before the
\* install.
C1_InstallThenCleanupRestores ==
    \A j \in 1..Len(log) :
        (/\ j + 1 = Len(log)
         /\ log[j].op = "install"
         /\ AllSurfacesOn(log[j].options)
         /\ log[j + 1].op = "cleanup"
         /\ log[j + 1].self = log[j].self)
        => Surfaces(page) = Surfaces(log[j].pre)

\* The page has made a fetch call after exactly two installations, both of
\* the getter/setter strategy, and the call has reached the native fetch.
AfterTwoGetterInstalls ==
    /\ Len(log) = 2
    /\ \A j \in 1..2 : /\ IsInstall(log[j])
                       /\ ~log[j].options.disableFetch
                       /\ Strategy(log[j].options) = "getter"

\* C7: after the getter/setter strategy has been installed twice in
\* succession (by updateOptions on the same interceptor, or by a second
\* interceptor), a fetch call of the page passes through one wrapper only,
\* so its request and response pipelines run once.
C7_GetterTwiceOnePipeline ==
    AfterTwoGetterInstalls =>
        \A c \in Calls :
            (calls[c].by = "page" /\ calls[c].net # "none") =>
                Len(calls[c].layers) = 1

\* setupInterceptor has run twice for one interceptor, the second time
\* through updateOptions, with XHR and form interception enabled.
InstalledAgain ==
    /\ Len(log) = 2
    /\ log[1].op = "install"
    /\ log[2].op = "update"
    /\ log[2].self = log[1].self
    /\ \A j \in 1..2 : AllSurfacesOn(log[j].options)

\* C8: after setupInterceptor has run a second time through updateOptions,
\* one XHR send runs the request pipeline at most once, and one form
\* submission starts at most one replay and at most one native submit.
C8_ReinstallRunsOnce ==
    InstalledAgain =>
        /\ \A x \in Xhrs : Len(xhrs[x].sends) <= 1
        /\ \A f \in Forms : Len(forms[f].replays) <= 1 /\ forms[f].native <= 1

\* updateOptions has switched the fetch strategy of an interceptor.
StrategySwitched ==
    /\ Len(log) = 2
    /\ log[1].op = "install"
    /\ log[2].op = "update"
    /\ log[2].self = log[1].self
    /\ \A j \in 1..2 : ~log[j].options.disableFetch
    /\ Strategy(log[1].options) # Strategy(log[2].options)

\* C9: after updateOptions has switched the fetch strategy, one layer of
\* interception is active: a fetch call of the page passes through one
\* wrapper and runs the request pipeline once.
C9_SwitchLeavesOneLayer ==
    StrategySwitched =>
        \A c \in Calls :
            (calls[c].by = "page" /\ calls[c].net # "none") =>
                Len(calls[c].layers) = 1

\* C10: cleanup() runs the closures in the reverse of the order in which
\* they were pushed: every closure it runs was pushed before the one it ran
\* just before.
C10_CleanupInReverseOrder ==
    \A a \in 1..Len(lastCleanup) : \A b \in 1..Len(lastCleanup) :
        a < b => lastCleanup[a] > lastCleanup[b]

\* C11: a second cleanup() of an interceptor right after a first one runs
\* no closure and leaves every call surface of the page as it was.
C11_SecondCleanupIsNoOp ==
    \A j \in 1..Len(log) :
        (/\ j + 1 = Len(log)
         /\ log[j].op = "cleanup"
         /\ log[j + 1].op = "cleanup"
         /\ log[j + 1].self = log[j].self)
        => /\ lastCleanup = <<>>
           /\ page = log[j + 1].pre

\* An interceptor was installed with every surface enabled, cleaned up, and
\* cleaned up again.
C11_Witness ==
    /\ Len(log) >= 3
    /\ log[Len(log) - 2].op = "install"
    /\ AllSurfacesOn(log[Len(log) - 2].options)
    /\ log[Len(log) - 1].op = "cleanup"
    /\ log[Len(log)].op = "cleanup"
    /\ log[Len(log) - 1].self = log[Len(log) - 2].self
    /\ log[Len(log)].self = log[Len(log) - 2].self

\* The XMLHttpRequest prototype methods, the form submit method and the
\* submit listeners of the document.
XhrAndFormSurfaces(pg) ==
    [open |-> pg.open, setRequestHeader |-> pg.setRequestHeader,
     send |-> pg.send, submit |-> pg.submit, listeners |-> pg.listeners]

\* C12: when one interceptor has been installed, re-installed any number of
\* times through updateOptions and then cleaned up, the three XHR prototype
\* methods and the form submit method are the references in place before
\* its first installation, and no submit listener is left on the document.
C12_CleanupRestoresAfterReinstalls ==
    (/\ Len(log) >= 2
     /\ log[1].op = "install"
     /\ \A j \in 2..(Len(log) - 1) :
           log[j].op = "update" /\ log[j].self = log[1].self
     /\ log[Len(log)].op = "cleanup"
     /\ log[Len(log)].self = log[1].self)
    => /\ page.open = log[1].pre.open
       /\ page.setRequestHeader = log[1].pre.setRequestHeader
       /\ page.send = log[1].pre.send
       /\ page.submit = log[1].pre.submit
       /\ page.listeners = <<>>

\* C13: after one installation with XHR and form interception enabled,
\* cleanup() puts back the open, setRequestHeader and send references and
\* the form submit implementation the installation found, and removes the
\* submit listener it added.
C13_OneInstallIsReversed ==
    \A j \in 1..Len(log) :
        (/\ j + 1 = Len(log)
         /\ log[j].op = "install"
         /\ ~log[j].options.disableXHR
         /\ ~log[j].options.disableFormIntercept
         /\ log[j + 1].op = "cleanup"
         /\ log[j + 1].self = log[j].self)
        => XhrAndFormSurfaces(page) = XhrAndFormSurfaces(log[j].pre)

\* An interceptor that wrapped the XHR methods and the form submit method
\* and added its listener has just been cleaned up.
C13_Witness ==
    /\ Len(log) >= 2
    /\ log[Len(log) - 1].op = "install"
    /\ ~log[Len(log) - 1].options.disableXHR
    /\ ~log[Len(log) - 1].options.disableFormIntercept
    /\ log[Len(log)].op = "cleanup"
    /\ log[Len(log)].self = log[Len(log) - 1].self
    /\ log[Len(log)].pre.send.k = "sendWrap"
    /\ log[Len(log)].pre.submit.k = "submitWrap"
    /\ log[Len(log)].pre.listeners # <<>>

(***************************************************************************)
(* Registering again: one interceptor, two ids, functions of two kinds and *)
(* values that are not functions, in both phases.                          *)
(***************************************************************************)
ReplaceIds == {"a", "b"}
ReplaceValues == {"ok", "reject", "notAFunction"}

ReplaceAddRequest ==
    \E fn \in ReplaceValues, id \in ReplaceIds :
        /\ \/ Len(requestMiddlewares[1]) < MaxMiddlewares
           \/ HasId(requestMiddlewares[1], id)
        /\ addRequestMiddleware(1, fn, id)

ReplaceAddResponse ==
    \E fn \in ReplaceValues, id \in ReplaceIds :
        /\ \/ Len(responseMiddlewares[1]) < MaxMiddlewares
           \/ HasId(responseMiddlewares[1], id)
        /\ addResponseMiddleware(1, fn, id)

ReplaceList == getMiddlewareIds(1)

NextReplace ==
    \/ RegistryInstall
    \/ ReplaceAddRequest
    \/ ReplaceAddResponse
    \/ ReplaceList

SpecReplace == Init /\ [][NextReplace]_vars

\* A registry holds one entry per id, and every entry is a function.
OneFunctionPerId(reg) ==
    /\ \A j, m \in 1..Len(reg) : reg[j].id = reg[m].id => j = m
    /\ \A j \in 1..Len(reg) : reg[j].kind # "notAFunction"

\* What registering the value fn under id makes of a registry that has the
\* id: the same ids in the same places, with fn under id; and what
\* registering a value that is not a function makes of any registry: nothing.
RegisteredAgain(old, new, fn, id) ==
    /\ fn = "notAFunction" => new = old
    /\ (fn # "notAFunction" /\ HasId(old, id)) =>
          /\ Len(new) = Len(old)
          /\ Keys(new) = Keys(old)
          /\ \A j \in 1..Len(old) :
                new[j].kind = IF old[j].id = id THEN fn ELSE old[j].kind

\* C38: at all times the registry of each phase holds at most one function
\* per id: registering under an id the phase has replaces the function
\* stored, leaves the number of registrations and the place of the id in the
\* listing unchanged, and a value that is not a function is never
\* registered.
C38_OneFunctionPerId ==
    /\ [](\A i \in Interceptors :
             /\ OneFunctionPerId(requestMiddlewares[i])
             /\ OneFunctionPerId(responseMiddlewares[i]))
    /\ [][\A fn \in ReplaceValues, id \in ReplaceIds :
             /\ addRequestMiddleware(1, fn, id) =>
                    RegisteredAgain(requestMiddlewares[1],
                                    requestMiddlewares'[1], fn, id)
             /\ addResponseMiddleware(1, fn, id) =>
                    RegisteredAgain(responseMiddlewares[1],
                                    responseMiddlewares'[1], fn, id)]_vars

\* The last call registered a function under "a", the first of the two ids
\* of the request phase: it was registered before, and is still listed
\* first.
C38_Witness ==
    /\ returned.op = "addRequestMiddleware"
    /\ returned.stored = "a"
    /\ requestMiddlewares[1] =
          <<[id |-> "a", kind |-> "reject"], [id |-> "b", kind |-> "ok"]>>

(***************************************************************************)
(* Properties of the registry under SpecRegistry.                          *)
(***************************************************************************)
\* C14: addRequestMiddleware and addResponseMiddleware return the id under
\* which they registered the middleware, the given one or the generated
\* one.
C14_AddReturnsTheId ==
    (/\ returned.op \in {"addRequestMiddleware", "addResponseMiddleware"}
     /\ returned.stored # "")
    => returned.k = "id" /\ returned.value = returned.stored

\* The ids of the request middlewares and of the response middlewares
\* called so far for the fetch call c, in any of its layers.
Invoked(c) ==
    UNION {{calls[c].layers[l].mw[j].id :
                j \in {i \in 1..Len(calls[c].layers[l].mw) :
                          calls[c].layers[l].mw[i].st # "notCalled"}} :
           l \in Layers(c)}

ResponseInvoked(c) ==
    UNION {{calls[c].layers[l].task.called[j] :
                j \in 1..Len(calls[c].layers[l].task.called)} : l \in Layers(c)}

IsRegistered(ids, id) == \E j \in 1..Len(ids) : ids[j] = id

\* A call of removeRequestMiddleware: it returns true exactly when the id
\* was registered, the id is gone, and the response registry is untouched.
RemoveRequestStep ==
    (returned' # returned /\ returned'.op = "removeRequestMiddleware") =>
        /\ returned'.k = (IF IsRegistered(Keys(requestMiddlewares[returned'.self]),
                                          returned'.id)
                          THEN "true" ELSE "false")
        /\ ~IsRegistered(Keys(requestMiddlewares'[returned'.self]), returned'.id)
        /\ responseMiddlewares' = responseMiddlewares

RemoveResponseStep ==
    (returned' # returned /\ returned'.op = "removeResponseMiddleware") =>
        /\ returned'.k = (IF IsRegistered(Keys(responseMiddlewares[returned'.self]),
                                          returned'.id)
                          THEN "true" ELSE "false")
        /\ ~IsRegistered(Keys(responseMiddlewares'[returned'.self]), returned'.id)
        /\ requestMiddlewares' = requestMiddlewares

\* No fetch call invokes the middleware whose removal was the last
\* operation on the registry (the calls of SpecRegistry start after it).
RemovedIsNotInvoked ==
    /\ returned.op = "removeRequestMiddleware" =>
          \A c \in Calls : returned.id \notin Invoked(c)
    /\ returned.op = "removeResponseMiddleware" =>
          \A c \in Calls : returned.id \notin ResponseInvoked(c)

\* C15: removeRequestMiddleware(id) and removeResponseMiddleware(id) return
\* true exactly when id was registered in that phase; afterwards the id is
\* not listed, the registry of the other phase is unchanged, and a call
\* started after the removal does not invoke the middleware.
C15_RemoveReturnsWhetherRegistered ==
    /\ [][RemoveRequestStep /\ RemoveResponseStep]_vars
    /\ []RemovedIsNotInvoked

\* A response middleware was removed by its generated id, and a fetch call
\* made afterwards has run the response middleware that was left.
C15_Witness ==
    /\ returned.op = "removeResponseMiddleware"
    /\ returned.k = "true"
    /\ returned.id = "resp_1"
    /\ \E c \in Calls : ResponseInvoked(c) # {}

\* C16: getMiddlewareIds returns, for each phase, the ids registered in that
\* phase, in the order in which they were inserted (an id added again while
\* registered keeps its place; one removed and added again is inserted
\* anew).
C16_ListIsInInsertionOrder ==
    returned.op = "getMiddlewareIds" =>
        /\ returned.k = "ids"
        /\ returned.request = inserted[returned.self].request
        /\ returned.response = inserted[returned.self].response

\* Listed with two ids registered in each phase, a generated id before a
\* given one.
C16_Witness ==
    /\ returned.op = "getMiddlewareIds"
    /\ returned.request = <<"req_1", "a">>
    /\ returned.response = <<"resp_2", "a">>

====
